---- MODULE Spec2Model ----
(***************************************************************************)
(* Command interpretation and orchestration engine of the smart-home voice *)
(* dashboard (script.js, class SmartHomeVoiceControl).                     *)
(*                                                                         *)
(* JavaScript strings are sequences of one-character strings, so that      *)
(* includes / startsWith / replace / regular expressions are computed on   *)
(* characters.  Room, device and action identifiers that the code only     *)
(* compares for equality are TLA+ strings; Chars gives their characters.   *)
(***************************************************************************)
EXTENDS Integers, Sequences, FiniteSets, TLC

VARIABLES
    devices,        \* this.devices: room -> device -> value
    persisted,      \* localStorage['smartHomeDevices']
    activeTimers,   \* this.activeTimers: timerId -> timer record
    tasks,          \* pending setTimeout callbacks, in registration order
    now,            \* Date.now(), in ms since the page was loaded
    commandHistory, \* this.commandHistory, newest first
    voiceResponseEnabled, \* this.voiceResponseEnabled
    useWhisperBackend,    \* this.useWhisperBackend
    storedBackend,        \* localStorage['useWhisperBackend']
    whisperAvailable,     \* this.whisperAvailable
    emitted,        \* feedback emitted by the handler or callback that ran last
    last,           \* what ran last: the handler or callback and its input
    handled,        \* number of inputs handled so far
    lastWrite,      \* room -> device -> which input wrote the value last, and when
    idle,           \* idle milliseconds that have passed
    isListening,    \* this.isListening
    mediaRecorder,  \* this.mediaRecorder: "null", or the state of the recorder
    recognition,    \* what the SpeechRecognition object this.recognition is doing
    transcribing    \* recordings that processWhisperAudio has not got an answer for

vars == <<devices, persisted, activeTimers, tasks, now, commandHistory,
          voiceResponseEnabled, useWhisperBackend, storedBackend,
          whisperAvailable, emitted, last, handled,
          lastWrite, idle, isListening, mediaRecorder, recognition, transcribing>>

\* the microphone side of the state
listening == <<isListening, mediaRecorder, recognition, transcribing>>

-----------------------------------------------------------------------------
(* String primitives                                                       *)

Min(S) == CHOOSE x \in S : \A y \in S : x <= y

WhiteSpace == {" ", "\t", "\n", "\r"}

Digits == {"0", "1", "2", "3", "4", "5", "6", "7", "8", "9"}

UpperToLower ==
    [c \in {"A","B","C","D","E","F","G","H","I","J","K","L","M","N","O","P","Q",
            "R","S","T","U","V","W","X","Y","Z"} |->
        CASE c = "A" -> "a" [] c = "B" -> "b" [] c = "C" -> "c" [] c = "D" -> "d"
          [] c = "E" -> "e" [] c = "F" -> "f" [] c = "G" -> "g" [] c = "H" -> "h"
          [] c = "I" -> "i" [] c = "J" -> "j" [] c = "K" -> "k" [] c = "L" -> "l"
          [] c = "M" -> "m" [] c = "N" -> "n" [] c = "O" -> "o" [] c = "P" -> "p"
          [] c = "Q" -> "q" [] c = "R" -> "r" [] c = "S" -> "s" [] c = "T" -> "t"
          [] c = "U" -> "u" [] c = "V" -> "v" [] c = "W" -> "w" [] c = "X" -> "x"
          [] c = "Y" -> "y" [] c = "Z" -> "z"]

\* String.prototype.toLowerCase
toLowerCase(s) ==
    [i \in 1..Len(s) |-> IF s[i] \in DOMAIN UpperToLower THEN UpperToLower[s[i]] ELSE s[i]]

\* String.prototype.trim
trim(s) ==
    LET keep == {i \in 1..Len(s) : s[i] \notin WhiteSpace}
    IN  IF keep = {} THEN <<>>
        ELSE SubSeq(s, Min(keep), CHOOSE i \in keep : \A j \in keep : j <= i)

\* String.prototype.startsWith
startsWith(s, p) == Len(p) <= Len(s) /\ SubSeq(s, 1, Len(p)) = p

\* s has sub at position i
HasAt(s, i, sub) == i + Len(sub) - 1 <= Len(s) /\ SubSeq(s, i, i + Len(sub) - 1) = sub

\* String.prototype.includes
includes(s, sub) == \E i \in 1..(Len(s) + 1) : HasAt(s, i, sub)

\* String.prototype.replace(pattern, by) with a string pattern: first occurrence only
replace(s, pat, by) ==
    IF ~includes(s, pat) THEN s
    ELSE LET i == Min({j \in 1..(Len(s) + 1) : HasAt(s, j, pat)})
         IN  SubSeq(s, 1, i - 1) \o by \o SubSeq(s, i + Len(pat), Len(s))

DigitValue(c) ==
    CASE c = "0" -> 0 [] c = "1" -> 1 [] c = "2" -> 2 [] c = "3" -> 3 [] c = "4" -> 4
      [] c = "5" -> 5 [] c = "6" -> 6 [] c = "7" -> 7 [] c = "8" -> 8 [] c = "9" -> 9

\* parseInt on a string of decimal digits (the only inputs the patterns capture)
RECURSIVE parseInt(_)
parseInt(s) ==
    IF s = <<>> THEN 0
    ELSE 10 * parseInt(SubSeq(s, 1, Len(s) - 1)) + DigitValue(s[Len(s)])

-----------------------------------------------------------------------------
(* Regular expressions: a backtracking matcher with JavaScript's priority  *)
(* order (greedy quantifiers, alternatives left to right, leftmost start). *)

MaxGroups == 4

NoCaptures == [n \in 1..MaxGroups |-> <<>>]

Lit(str)  == [t |-> "lit", s |-> str]
Set(cs)   == [t |-> "set", cs |-> cs]
Dot       == [t |-> "any"]
Cat(rs)   == [t |-> "cat", rs |-> rs]
Alt(rs)   == [t |-> "alt", rs |-> rs]
Opt(r)    == [t |-> "opt", r |-> r]
Star(r)   == [t |-> "star", r |-> r]
Plus(r)   == [t |-> "plus", r |-> r]
Grp(n, r) == [t |-> "grp", n |-> n, r |-> r]

\* a character matcher: a set of characters, or "." (anything but a line end)
Accepts(re, c) == IF re.t = "set" THEN c \in re.cs ELSE c \notin {"\n", "\r"}

\* how many characters from position i on the character matcher re accepts
Run(re, s, i) ==
    LET stop == {j \in i..Len(s) : ~Accepts(re, s[j])}
    IN  IF stop = {} THEN Len(s) + 1 - i ELSE Min(stop) - i

RECURSIVE Match(_, _, _, _), Then(_, _, _, _), Alts(_, _, _, _), Capture(_, _, _, _, _)

\* Every way re matches s from position i, best first: <<[e |-> position after
\* the match, c |-> captures]>>.  An unset or empty capture is <<>> (both are
\* falsy in JavaScript, and no group of the patterns can capture "").  The
\* quantifiers * and + are greedy and apply to character matchers only, as in
\* every pattern of the program.
Match(re, s, i, caps) ==
    CASE re.t = "lit" ->
            IF HasAt(s, i, re.s) THEN <<[e |-> i + Len(re.s), c |-> caps]>> ELSE <<>>
      [] re.t \in {"set", "any"} ->
            IF i <= Len(s) /\ Accepts(re, s[i]) THEN <<[e |-> i + 1, c |-> caps]>> ELSE <<>>
      [] re.t = "cat" ->
            IF re.rs = <<>> THEN <<[e |-> i, c |-> caps]>>
            ELSE Then(Match(Head(re.rs), s, i, caps), 1, Cat(Tail(re.rs)), s)
      [] re.t = "alt" -> Alts(re.rs, s, i, caps)
      [] re.t = "opt" -> Match(re.r, s, i, caps) \o <<[e |-> i, c |-> caps]>>
      [] re.t = "star" ->
            [j \in 1..(Run(re.r, s, i) + 1) |-> [e |-> i + Run(re.r, s, i) + 1 - j, c |-> caps]]
      [] re.t = "plus" ->
            [j \in 1..Run(re.r, s, i) |-> [e |-> i + Run(re.r, s, i) + 1 - j, c |-> caps]]
      [] re.t = "grp" -> Capture(Match(re.r, s, i, caps), 1, re.n, s, i)

\* continue each match of ms (from the k-th on) with re
Then(ms, k, re, s) ==
    IF k > Len(ms) THEN <<>>
    ELSE Match(re, s, ms[k].e, ms[k].c) \o Then(ms, k + 1, re, s)

Alts(rs, s, i, caps) ==
    IF rs = <<>> THEN <<>>
    ELSE Match(Head(rs), s, i, caps) \o Alts(Tail(rs), s, i, caps)

Capture(ms, k, n, s, i) ==
    IF k > Len(ms) THEN <<>>
    ELSE <<[e |-> ms[k].e, c |-> [ms[k].c EXCEPT ![n] = SubSeq(s, i, ms[k].e - 1)]]>>
         \o Capture(ms, k + 1, n, s, i)

NoMatch == [found |-> FALSE]

\* String.prototype.match with a non-global pattern: the best match at the
\* leftmost position where the pattern matches, or null
match(s, re) ==
    LET starts == {i \in 1..(Len(s) + 1) : Match(re, s, i, NoCaptures) # <<>>}
    IN  IF starts = {} THEN NoMatch
        ELSE [found |-> TRUE, g |-> Match(re, s, Min(starts), NoCaptures)[1].c]

Ws1 == Plus(Set(WhiteSpace))    \* \s+
Ws0 == Star(Set(WhiteSpace))    \* \s*
Num == Plus(Set(Digits))        \* \d+
LightsQ == Cat(<<Lit(<<"l","i","g","h","t">>), Opt(Lit(<<"s">>))>>)    \* lights?
OptThe == Opt(Cat(<<Lit(<<"t","h","e">>), Ws1>>))             \* (?:the\s+)?
OnOff == Alt(<<Lit(<<"o","n">>), Lit(<<"o","f","f">>)>>)            \* on|off
\* living\s+room|bedroom|kitchen|living|master
RoomWords ==
    Alt(<<Cat(<<Lit(<<"l","i","v","i","n","g">>), Ws1, Lit(<<"r","o","o","m">>)>>), Lit(<<"b","e","d","r","o","o","m">>),
          Lit(<<"k","i","t","c","h","e","n">>), Lit(<<"l","i","v","i","n","g">>), Lit(<<"m","a","s","t","e","r">>)>>)
\* (?:\s+in\s+(?:the\s+)?(.+))? with the room in group n
OptInRoom(n) == Opt(Cat(<<Ws1, Lit(<<"i","n">>), Ws1, OptThe, Grp(n, Plus(Dot))>>))
\* (?:\s+(?:degrees?|\u00ac\u221ef?))?  (the two characters the source file holds)
OptDegrees ==
    Opt(Cat(<<Ws1, Alt(<<Cat(<<Lit(<<"d","e","g","r","e","e">>), Opt(Lit(<<"s">>))>>),
                         Cat(<<Lit(<<"\\u00ac", "\\u221e">>), Opt(Lit(<<"f">>))>>)>>)>>))

\* /(turn off|stop) (.+) in (\d+) (minutes?|mins?|hours?|hrs?)/i
timerPattern ==
    Cat(<<Grp(1, Alt(<<Lit(<<"t","u","r","n"," ","o","f","f">>), Lit(<<"s","t","o","p">>)>>)), Lit(<<" ">>),
          Grp(2, Plus(Dot)), Lit(<<" ","i","n"," ">>), Grp(3, Num), Lit(<<" ">>),
          Grp(4, Alt(<<Cat(<<Lit(<<"m","i","n","u","t","e">>), Opt(Lit(<<"s">>))>>),
                       Cat(<<Lit(<<"m","i","n">>), Opt(Lit(<<"s">>))>>),
                       Cat(<<Lit(<<"h","o","u","r">>), Opt(Lit(<<"s">>))>>),
                       Cat(<<Lit(<<"h","r">>), Opt(Lit(<<"s">>))>>)>>))>>)

-----------------------------------------------------------------------------
(* Room normalizer                                                         *)

\* roomMap, in declaration order (Object.entries order)
roomMap ==
    << <<<<"l","i","v","i","n","g"," ","r","o","o","m">>, "living-room">>,
       <<<<"l","i","v","i","n","g","r","o","o","m">>, "living-room">>,
       <<<<"l","i","v","i","n","g">>, "living-room">>,
       <<<<"l","o","u","n","g","e">>, "living-room">>,
       <<<<"f","r","o","n","t"," ","r","o","o","m">>, "living-room">>,
       <<<<"m","a","i","n"," ","r","o","o","m">>, "living-room">>,
       <<<<"l","i","v","i","n","g"," ","r","o","o">>, "living-room">>,
       <<<<"l","i","v","i","n","g"," ","r","o">>, "living-room">>,
       <<<<"l","i","v","i","n">>, "living-room">>,
       <<<<"l","i","v">>, "living-room">>,
       <<<<"b","e","d","r","o","o","m">>, "bedroom">>,
       <<<<"b","e","d"," ","r","o","o","m">>, "bedroom">>,
       <<<<"m","a","s","t","e","r"," ","b","e","d","r","o","o","m">>, "bedroom">>,
       <<<<"m","a","s","t","e","r">>, "bedroom">>,
       <<<<"s","l","e","e","p","i","n","g"," ","r","o","o","m">>, "bedroom">>,
       <<<<"b","e","d">>, "bedroom">>,
       <<<<"k","i","t","c","h","e","n">>, "kitchen">>,
       <<<<"c","o","o","k","i","n","g"," ","a","r","e","a">>, "kitchen">>,
       <<<<"d","i","n","i","n","g"," ","r","o","o","m">>, "kitchen">>,
       <<<<"k","i","t","c","h">>, "kitchen">> >>

\* lower-case names that roomMap[name] finds on Object.prototype
InheritedKeys == {<<"c","o","n","s","t","r","u","c","t","o","r">>, <<"_","_","p","r","o","t","o","_","_">>}

NotARoom == "[object]"

\* faulty variant: the default room depends on what was handled before
DefaultRoom_Drifting == IF handled > 0 THEN "kitchen" ELSE "living-room"

DefaultRoom == "living-room"

\* faulty variant: trim() is forgotten
normalizeRoom_NoTrim(roomName) ==
    IF roomName = <<>> THEN DefaultRoom
    ELSE
      LET normalized == toLowerCase(roomName)
          exact == {k \in 1..Len(roomMap) : roomMap[k][1] = normalized}
          partial == {k \in 1..Len(roomMap) :
                        \/ startsWith(roomMap[k][1], normalized)
                        \/ startsWith(normalized, roomMap[k][1])}
      IN  IF exact # {} THEN roomMap[Min(exact)][2]
          ELSE IF normalized \in InheritedKeys THEN NotARoom
          ELSE IF partial # {} THEN roomMap[Min(partial)][2]
          ELSE DefaultRoom

\* faulty variant: no partial matching
normalizeRoom_ExactOnly(roomName) ==
    IF roomName = <<>> THEN DefaultRoom
    ELSE
      LET normalized == toLowerCase(trim(roomName))
          exact == {k \in 1..Len(roomMap) : roomMap[k][1] = normalized}
      IN  IF exact # {} THEN roomMap[Min(exact)][2]
          ELSE IF normalized \in InheritedKeys THEN NotARoom
          ELSE DefaultRoom

normalizeRoom(roomName) ==
    IF roomName = <<>> THEN DefaultRoom
    ELSE
      LET normalized == toLowerCase(trim(roomName))
          exact == {k \in 1..Len(roomMap) : roomMap[k][1] = normalized}
          partial == {k \in 1..Len(roomMap) :
                        \/ startsWith(roomMap[k][1], normalized)
                        \/ startsWith(normalized, roomMap[k][1])}
      IN  IF exact # {} THEN roomMap[Min(exact)][2]
          ELSE IF normalized \in InheritedKeys THEN NotARoom
          ELSE IF partial # {} THEN roomMap[Min(partial)][2]
          ELSE DefaultRoom

-----------------------------------------------------------------------------
(* Intent parser                                                           *)

Undefined == "undefined"

Null == [type |-> "null"]

HelpIntent == [type |-> "help", action |-> "show"]

SceneIntent(name) == [type |-> "scene", action |-> name]

SettingsIntent(action) == [type |-> "settings", action |-> action]

\* a device command has no type property
DeviceIntent(device, room, action, value) ==
    [type |-> Undefined, device |-> device, room |-> room, action |-> action,
     value |-> value]

\* the action words the patterns capture, as identifiers
Word(w) ==
    CASE w = <<"o","n">> -> "on" [] w = <<"o","f","f">> -> "off"
      [] w = <<"p","l","a","y">> -> "play" [] w = <<"s","t","o","p">> -> "stop" [] w = <<"p","a","u","s","e">> -> "pause"
      [] w = <<"a","r","m">> -> "arm" [] w = <<"d","i","s","a","r","m">> -> "disarm"

\* faulty variant: the captured room is ignored
RoomOrDefault_Ignored(g) == DefaultRoom

RoomOrDefault(g) == IF g # <<>> THEN normalizeRoom(g) ELSE DefaultRoom

\* faulty variant: the on/off values swapped
LightsIntent_Swapped(room, onoff) ==
    DeviceIntent("lights", room, Word(onoff), IF onoff = <<"o","n">> THEN 0 ELSE 100)

LightsIntent(room, onoff) ==
    DeviceIntent("lights", room, Word(onoff), IF onoff = <<"o","n">> THEN 100 ELSE 0)

MusicValue(action) ==
    IF action = "play" THEN "playing" ELSE IF action = "stop" THEN "stopped" ELSE "paused"

\* the patterns array: <<pattern, action>> in declaration order
patterns ==
    << \* turn\s+(on|off)\s+(?:the\s+)?(living\s+room|bedroom|kitchen|living|master)\s+lights?
       [pattern |-> Cat(<<Lit(<<"t","u","r","n">>), Ws1, Grp(1, OnOff), Ws1, OptThe,
                          Grp(2, RoomWords), Ws1, LightsQ>>),
        kind |-> "lights-specific"],
       \* (living\s+room|bedroom|kitchen|living|master)\s+lights?\s+(on|off)
       [pattern |-> Cat(<<Grp(1, RoomWords), Ws1, LightsQ, Ws1, Grp(2, OnOff)>>),
        kind |-> "lights-room-first"],
       \* (?:turn\s+)?(on|off)\s+(?:the\s+)?lights?(?:\s+in\s+(?:the\s+)?(living\s+room|...))?
       [pattern |-> Cat(<<Opt(Cat(<<Lit(<<"t","u","r","n">>), Ws1>>)), Grp(1, OnOff), Ws1, OptThe,
                          LightsQ,
                          Opt(Cat(<<Ws1, Lit(<<"i","n">>), Ws1, OptThe, Grp(2, RoomWords)>>))>>),
        kind |-> "lights-general"],
       \* lights?\s+(on|off)(?:\s+in\s+(?:the\s+)?(.+))?
       [pattern |-> Cat(<<LightsQ, Ws1, Grp(1, OnOff), OptInRoom(2)>>),
        kind |-> "lights-general"],
       \* dim\s+(?:the\s+)?(?:(.+)\s+)?lights?\s+to\s+(\d+)(?:\s*percent|%)?
       [pattern |-> Cat(<<Lit(<<"d","i","m">>), Ws1, OptThe,
                          Opt(Cat(<<Grp(1, Plus(Dot)), Ws1>>)), LightsQ, Ws1,
                          Lit(<<"t","o">>), Ws1, Grp(2, Num),
                          Opt(Alt(<<Cat(<<Ws0, Lit(<<"p","e","r","c","e","n","t">>)>>), Lit(<<"%">>)>>))>>),
        kind |-> "dim"],
       \* set\s+(?:the\s+)?temperature\s+to\s+(\d+)(?:\s+(?:degrees?|..f?))?(?:\s+in\s+(?:the\s+)?(.+))?
       [pattern |-> Cat(<<Lit(<<"s","e","t">>), Ws1, OptThe, Lit(<<"t","e","m","p","e","r","a","t","u","r","e">>), Ws1,
                          Lit(<<"t","o">>), Ws1, Grp(1, Num), OptDegrees, OptInRoom(2)>>),
        kind |-> "temperature"],
       \* set\s+(?:the\s+)?(.+)\s+temperature\s+to\s+(\d+)(?:\s+(?:degrees?|..f?))?
       [pattern |-> Cat(<<Lit(<<"s","e","t">>), Ws1, OptThe, Grp(1, Plus(Dot)), Ws1,
                          Lit(<<"t","e","m","p","e","r","a","t","u","r","e">>), Ws1, Lit(<<"t","o">>), Ws1, Grp(2, Num),
                          OptDegrees>>),
        kind |-> "room-temperature"],
       \* (play|stop|pause)\s+(?:the\s+)?music(?:\s+in\s+(?:the\s+)?(.+))?
       [pattern |-> Cat(<<Grp(1, Alt(<<Lit(<<"p","l","a","y">>), Lit(<<"s","t","o","p">>), Lit(<<"p","a","u","s","e">>)>>)),
                          Ws1, OptThe, Lit(<<"m","u","s","i","c">>), OptInRoom(2)>>),
        kind |-> "music"],
       \* music\s+(on|off|play|stop|pause)(?:\s+in\s+(?:the\s+)?(.+))?
       [pattern |-> Cat(<<Lit(<<"m","u","s","i","c">>), Ws1,
                          Grp(1, Alt(<<Lit(<<"o","n">>), Lit(<<"o","f","f">>), Lit(<<"p","l","a","y">>),
                                       Lit(<<"s","t","o","p">>), Lit(<<"p","a","u","s","e">>)>>)),
                          OptInRoom(2)>>),
        kind |-> "music-first"],
       \* (arm|disarm)\s+(?:the\s+)?security(?:\s+system)?
       [pattern |-> Cat(<<Grp(1, Alt(<<Lit(<<"a","r","m">>), Lit(<<"d","i","s","a","r","m">>)>>)), Ws1, OptThe,
                          Lit(<<"s","e","c","u","r","i","t","y">>), Opt(Cat(<<Ws1, Lit(<<"s","y","s","t","e","m">>)>>))>>),
        kind |-> "security"] >>

\* faulty variant: the dimming level is not clamped to 0..100
patternAction_NoClamp(kind, g) ==
    CASE kind = "lights-specific" -> LightsIntent(normalizeRoom(g[2]), g[1])
      [] kind = "lights-room-first" -> LightsIntent(normalizeRoom(g[1]), g[2])
      [] kind = "lights-general" -> LightsIntent(RoomOrDefault(g[2]), g[1])
      [] kind = "dim" ->
            DeviceIntent("lights", RoomOrDefault(g[1]), "dim", parseInt(g[2]))
      [] kind = "temperature" ->
            DeviceIntent("thermostat", RoomOrDefault(g[2]), "set", parseInt(g[1]))
      [] kind = "room-temperature" ->
            DeviceIntent("thermostat", normalizeRoom(g[1]), "set", parseInt(g[2]))
      [] kind = "music" ->
            DeviceIntent("music", RoomOrDefault(g[2]), Word(g[1]), MusicValue(Word(g[1])))
      [] kind = "music-first" ->
            LET action == IF g[1] = <<"o","n">> THEN "play"
                          ELSE IF g[1] = <<"o","f","f">> THEN "stop" ELSE Word(g[1])
            IN  DeviceIntent("music", RoomOrDefault(g[2]), action, MusicValue(action))
      [] kind = "security" ->
            DeviceIntent("security", "kitchen", Word(g[1]),
                         IF g[1] = <<"a","r","m">> THEN "armed" ELSE "disarmed")

\* pattern.action(matches) of the k-th pattern, g the captured groups
patternAction(kind, g) ==
    CASE kind = "lights-specific" -> LightsIntent(normalizeRoom(g[2]), g[1])
      [] kind = "lights-room-first" -> LightsIntent(normalizeRoom(g[1]), g[2])
      [] kind = "lights-general" -> LightsIntent(RoomOrDefault(g[2]), g[1])
      [] kind = "dim" ->
            LET n == parseInt(g[2])
                lo == IF 0 > n THEN 0 ELSE n            \* Math.max(0, n)
                value == IF 100 < lo THEN 100 ELSE lo   \* Math.min(100, ...)
            IN  DeviceIntent("lights", RoomOrDefault(g[1]), "dim", value)
      [] kind = "temperature" ->
            DeviceIntent("thermostat", RoomOrDefault(g[2]), "set", parseInt(g[1]))
      [] kind = "room-temperature" ->
            DeviceIntent("thermostat", normalizeRoom(g[1]), "set", parseInt(g[2]))
      [] kind = "music" ->
            DeviceIntent("music", RoomOrDefault(g[2]), Word(g[1]), MusicValue(Word(g[1])))
      [] kind = "music-first" ->
            LET action == IF g[1] = <<"o","n">> THEN "play"
                          ELSE IF g[1] = <<"o","f","f">> THEN "stop" ELSE Word(g[1])
            IN  DeviceIntent("music", RoomOrDefault(g[2]), action, MusicValue(action))
      [] kind = "security" ->
            DeviceIntent("security", "kitchen", Word(g[1]),
                         IF g[1] = <<"a","r","m">> THEN "armed" ELSE "disarmed")

\* the for loop over patterns: the first pattern that matches decides
RECURSIVE firstPattern(_, _)
firstPattern(command, k) ==
    IF k > Len(patterns) THEN Null
    ELSE LET matches == match(command, patterns[k].pattern)
         IN  IF matches.found THEN patternAction(patterns[k].kind, matches.g)
             ELSE firstPattern(command, k + 1)

\* faulty variant: the device patterns are tried before the keyword rules
parseCommand_PatternsFirst(command) ==
    IF firstPattern(command, 1).type # "null" THEN firstPattern(command, 1)
    ELSE IF \/ includes(command, <<"h","e","l","p">>) \/ includes(command, <<"w","h","a","t"," ","c","a","n"," ","y","o","u"," ","d","o">>)
            \/ includes(command, <<"c","o","m","m","a","n","d","s">>)
    THEN HelpIntent
    ELSE IF includes(command, <<"m","o","v","i","e"," ","m","o","d","e">>) \/ includes(command, <<"c","i","n","e","m","a"," ","m","o","d","e">>)
    THEN SceneIntent("movie")
    ELSE IF includes(command, <<"g","o","o","d","n","i","g","h","t">>) \/ includes(command, <<"g","o","o","d"," ","n","i","g","h","t">>)
    THEN SceneIntent("goodnight")
    ELSE IF includes(command, <<"w","a","k","e"," ","u","p">>) \/ includes(command, <<"m","o","r","n","i","n","g"," ","m","o","d","e">>)
    THEN SceneIntent("morning")
    ELSE IF includes(command, <<"p","a","r","t","y"," ","m","o","d","e">>) \/ includes(command, <<"p","a","r","t","y"," ","t","i","m","e">>)
    THEN SceneIntent("party")
    ELSE Null

\* faulty variant: the two-word phrasing of goodnight is not known
parseCommand_OneGoodnight(command) ==
    IF \/ includes(command, <<"h","e","l","p">>) \/ includes(command, <<"w","h","a","t"," ","c","a","n"," ","y","o","u"," ","d","o">>)
       \/ includes(command, <<"c","o","m","m","a","n","d","s">>)
    THEN HelpIntent
    ELSE IF includes(command, <<"m","o","v","i","e"," ","m","o","d","e">>) \/ includes(command, <<"c","i","n","e","m","a"," ","m","o","d","e">>)
    THEN SceneIntent("movie")
    ELSE IF includes(command, <<"g","o","o","d","n","i","g","h","t">>)
    THEN SceneIntent("goodnight")
    ELSE IF includes(command, <<"w","a","k","e"," ","u","p">>) \/ includes(command, <<"m","o","r","n","i","n","g"," ","m","o","d","e">>)
    THEN SceneIntent("morning")
    ELSE IF includes(command, <<"p","a","r","t","y"," ","m","o","d","e">>) \/ includes(command, <<"p","a","r","t","y"," ","t","i","m","e">>)
    THEN SceneIntent("party")
    ELSE LET timerMatch == match(toLowerCase(command), timerPattern)
         IN
    IF timerMatch.found
    THEN [type |-> "timer", device |-> "lights",
          room |-> normalizeRoom(timerMatch.g[2]), action |-> "turn off",
          duration |-> parseInt(timerMatch.g[3]),
          unit |-> toLowerCase(timerMatch.g[4])]
    ELSE IF includes(command, <<"t","u","r","n"," ","o","f","f"," ","v","o","i","c","e">>) \/ includes(command, <<"d","i","s","a","b","l","e"," ","v","o","i","c","e">>)
    THEN SettingsIntent("disable_voice")
    ELSE IF includes(command, <<"t","u","r","n"," ","o","n"," ","v","o","i","c","e">>) \/ includes(command, <<"e","n","a","b","l","e"," ","v","o","i","c","e">>)
    THEN SettingsIntent("enable_voice")
    ELSE IF \/ includes(command, <<"u","s","e"," ","w","h","i","s","p","e","r">>) \/ includes(command, <<"s","w","i","t","c","h"," ","t","o"," ","w","h","i","s","p","e","r">>)
            \/ includes(command, <<"w","h","i","s","p","e","r"," ","b","a","c","k","e","n","d">>)
    THEN SettingsIntent("use_whisper")
    ELSE IF \/ includes(command, <<"u","s","e"," ","w","e","b"," ","s","p","e","e","c","h">>)
            \/ includes(command, <<"s","w","i","t","c","h"," ","t","o"," ","w","e","b"," ","s","p","e","e","c","h">>)
            \/ includes(command, <<"b","r","o","w","s","e","r"," ","s","p","e","e","c","h">>)
    THEN SettingsIntent("use_webspeech")
    ELSE firstPattern(command, 1)

parseCommand(command) ==
    IF \/ includes(command, <<"h","e","l","p">>) \/ includes(command, <<"w","h","a","t"," ","c","a","n"," ","y","o","u"," ","d","o">>)
       \/ includes(command, <<"c","o","m","m","a","n","d","s">>)
    THEN HelpIntent
    ELSE IF includes(command, <<"m","o","v","i","e"," ","m","o","d","e">>) \/ includes(command, <<"c","i","n","e","m","a"," ","m","o","d","e">>)
    THEN SceneIntent("movie")
    ELSE IF includes(command, <<"g","o","o","d","n","i","g","h","t">>) \/ includes(command, <<"g","o","o","d"," ","n","i","g","h","t">>)
    THEN SceneIntent("goodnight")
    ELSE IF includes(command, <<"w","a","k","e"," ","u","p">>) \/ includes(command, <<"m","o","r","n","i","n","g"," ","m","o","d","e">>)
    THEN SceneIntent("morning")
    ELSE IF includes(command, <<"p","a","r","t","y"," ","m","o","d","e">>) \/ includes(command, <<"p","a","r","t","y"," ","t","i","m","e">>)
    THEN SceneIntent("party")
    ELSE LET timerMatch == match(toLowerCase(command), timerPattern)
         IN
    IF timerMatch.found
    THEN [type |-> "timer", device |-> "lights",
          room |-> normalizeRoom(timerMatch.g[2]), action |-> "turn off",
          duration |-> parseInt(timerMatch.g[3]),
          unit |-> toLowerCase(timerMatch.g[4])]
    ELSE IF includes(command, <<"t","u","r","n"," ","o","f","f"," ","v","o","i","c","e">>) \/ includes(command, <<"d","i","s","a","b","l","e"," ","v","o","i","c","e">>)
    THEN SettingsIntent("disable_voice")
    ELSE IF includes(command, <<"t","u","r","n"," ","o","n"," ","v","o","i","c","e">>) \/ includes(command, <<"e","n","a","b","l","e"," ","v","o","i","c","e">>)
    THEN SettingsIntent("enable_voice")
    ELSE IF \/ includes(command, <<"u","s","e"," ","w","h","i","s","p","e","r">>) \/ includes(command, <<"s","w","i","t","c","h"," ","t","o"," ","w","h","i","s","p","e","r">>)
            \/ includes(command, <<"w","h","i","s","p","e","r"," ","b","a","c","k","e","n","d">>)
    THEN SettingsIntent("use_whisper")
    ELSE IF \/ includes(command, <<"u","s","e"," ","w","e","b"," ","s","p","e","e","c","h">>)
            \/ includes(command, <<"s","w","i","t","c","h"," ","t","o"," ","w","e","b"," ","s","p","e","e","c","h">>)
            \/ includes(command, <<"b","r","o","w","s","e","r"," ","s","p","e","e","c","h">>)
    THEN SettingsIntent("use_webspeech")
    ELSE firstPattern(command, 1)


-----------------------------------------------------------------------------
(* Static data                                                             *)

\* a localStorage item that was never set
Absent == "absent"

\* localStorage['smartHomeDevices']: not set, or the parsed JSON it holds
NoSnapshot == [present |-> FALSE]

Snapshot(mapping) == [present |-> TRUE, value |-> mapping]

Rooms == {"living-room", "bedroom", "kitchen"}

\* characters of the identifiers that are interpolated into messages
Chars(id) ==
    CASE id = "living-room" -> <<"l","i","v","i","n","g","-","r","o","o","m">>
      [] id = "bedroom" -> <<"b","e","d","r","o","o","m">>
      [] id = "kitchen" -> <<"k","i","t","c","h","e","n">>
      [] id = "garage" -> <<"g","a","r","a","g","e">>
      [] id = "lights" -> <<"l","i","g","h","t","s">>
      [] id = "thermostat" -> <<"t","h","e","r","m","o","s","t","a","t">>
      [] id = "music" -> <<"m","u","s","i","c">>
      [] id = "security" -> <<"s","e","c","u","r","i","t","y">>
      [] id = "on" -> <<"o","n">>
      [] id = "off" -> <<"o","f","f">>
      [] id = "test" -> <<"t","e","s","t">>
      [] id = "turn off" -> <<"t","u","r","n"," ","o","f","f">>
      [] id = "playing" -> <<"p","l","a","y","i","n","g">>
      [] id = "paused" -> <<"p","a","u","s","e","d">>
      [] id = "stopped" -> <<"s","t","o","p","p","e","d">>
      [] id = "armed" -> <<"a","r","m","e","d">>
      [] id = "disarmed" -> <<"d","i","s","a","r","m","e","d">>
      [] id = "movie" -> <<"m","o","v","i","e">>
      [] id = "goodnight" -> <<"g","o","o","d","n","i","g","h","t">>
      [] id = "morning" -> <<"m","o","r","n","i","n","g">>
      [] id = "party" -> <<"p","a","r","t","y">>
      [] id = "romantic" -> <<"r","o","m","a","n","t","i","c">>
      [] id = "constructor" -> <<"c","o","n","s","t","r","u","c","t","o","r">>
      \* String(object) of an inherited object that stands for a room
      [] id = NotARoom -> <<"[","o","b","j","e","c","t"," ","O","b","j","e","c","t","]">>

DigitChar(d) ==
    CASE d = 0 -> "0" [] d = 1 -> "1" [] d = 2 -> "2" [] d = 3 -> "3" [] d = 4 -> "4"
      [] d = 5 -> "5" [] d = 6 -> "6" [] d = 7 -> "7" [] d = 8 -> "8" [] d = 9 -> "9"

\* a non-negative integer interpolated into a template string
RECURSIVE NumChars(_)
NumChars(n) == IF n < 10 THEN <<DigitChar(n)>> ELSE NumChars(n \div 10) \o <<DigitChar(n % 10)>>

defaultStates ==
    [r \in Rooms |->
        CASE r = "living-room" -> [lights |-> 0, thermostat |-> 72, music |-> "stopped"]
          [] r = "bedroom" -> [lights |-> 0, thermostat |-> 70, music |-> "stopped"]
          [] r = "kitchen" -> [lights |-> 0, thermostat |-> 68, security |-> "disarmed"]]

\* a snapshot an earlier session left in localStorage (after the party scene
\* and "disarm security")
SavedAfterParty ==
    [r \in Rooms |->
        CASE r = "living-room" -> [lights |-> 100, thermostat |-> 72, music |-> "playing"]
          [] r = "bedroom" -> [lights |-> 75, thermostat |-> 70, music |-> "stopped"]
          [] r = "kitchen" -> [lights |-> 100, thermostat |-> 68, security |-> "disarmed"]]

\* what localStorage['smartHomeDevices'] can hold when the page loads
StoredSnapshots == <<NoSnapshot, Snapshot(SavedAfterParty)>>

\* a stored text that JSON.parse rejects
Unparseable == [text |-> "{oops"]

\* what JSON.parse makes of the stored text "null"
null == [text |-> "null"]

\* what JSON.parse makes of the stored text "{}"
EmptyObject == << >>

\* a stored mapping that has lost two of its rooms
LivingRoomOnly == [r \in {"living-room"} |-> SavedAfterParty[r]]

\* what localStorage['smartHomeDevices'] may hold when the page is loaded
StartupItems ==
    <<NoSnapshot, Snapshot(SavedAfterParty), Snapshot(Unparseable), Snapshot(null),
      Snapshot(EmptyObject), Snapshot(LivingRoomOnly)>>

\* loadDeviceStates: what JSON.parse makes of the saved text if there is one,
\* the defaults if there is none or JSON.parse throws
loadDeviceStates(saved) ==
    IF saved.present /\ saved.value # Unparseable THEN saved.value ELSE defaultStates

Step(room, device, value) == [room |-> room, device |-> device, value |-> value]

SceneNames == {"movie", "goodnight", "morning", "party"}

\* faulty variant: goodnight forgets the kitchen lights
scenes_GoodnightSkipsKitchen ==
    [n \in SceneNames |->
        IF n = "goodnight"
        THEN <<Step("living-room", "lights", 0), Step("bedroom", "lights", 0),
               Step("kitchen", "security", "armed")>>
        ELSE <<Step("living-room", "lights", 100), Step("living-room", "music", "playing")>>]

\* loadScenes
scenes ==
    [n \in SceneNames |->
        CASE n = "movie" ->
                <<Step("living-room", "lights", 20), Step("living-room", "music", "playing")>>
          [] n = "goodnight" ->
                <<Step("living-room", "lights", 0), Step("bedroom", "lights", 0),
                  Step("kitchen", "lights", 0), Step("kitchen", "security", "armed")>>
          [] n = "morning" ->
                <<Step("bedroom", "lights", 80), Step("kitchen", "lights", 100),
                  Step("kitchen", "security", "disarmed")>>
          [] n = "party" ->
                <<Step("living-room", "lights", 100), Step("bedroom", "lights", 75),
                  Step("kitchen", "lights", 100), Step("living-room", "music", "playing")>>]

\* getResponseVariations().success
successResponses ==
    <<<<"D","o","n","e","!">>, <<"S","u","r","e"," ","t","h","i","n","g","!">>, <<"Y","o","u"," ","g","o","t"," ","i","t","!">>, <<"C","o","n","s","i","d","e","r"," ","i","t"," ","d","o","n","e","!">>, <<"A","l","l"," ","s","e","t","!">>,
      <<"P","e","r","f","e","c","t","!">>, <<"G","r","e","a","t","!">>>>

\* getResponseVariations().unrecognized
unrecognizedResponses ==
    <<<<"S","o","r","r","y",","," ","I"," ","d","i","d","n","'","t"," ","u","n","d","e","r","s","t","a","n","d"," ","t","h","a","t"," ","c","o","m","m","a","n","d",".">>,
      <<"I","'","m"," ","n","o","t"," ","s","u","r","e"," ","w","h","a","t"," ","y","o","u"," ","m","e","a","n","t","."," ","T","r","y"," ","s","a","y","i","n","g"," ","'","h","e","l","p","'"," ","f","o","r"," ","a","v","a","i","l","a","b","l","e"," ","c","o","m","m","a","n","d","s",".">>,
      <<"C","o","u","l","d"," ","y","o","u"," ","r","e","p","h","r","a","s","e"," ","t","h","a","t","?"," ","S","a","y"," ","'","h","e","l","p","'"," ","t","o"," ","s","e","e"," ","w","h","a","t"," ","I"," ","c","a","n"," ","d","o",".">>,
      <<"I"," ","d","i","d","n","'","t"," ","c","a","t","c","h"," ","t","h","a","t","."," ","T","r","y"," ","'","h","e","l","p","'"," ","f","o","r"," ","a"," ","l","i","s","t"," ","o","f"," ","c","o","m","m","a","n","d","s",".">>>>

confidenceThreshold == 70     \* 0.7, confidences being modelled in percent

maxHistoryLength == 10

SceneStepMs == 500

HelpDelayMs == 1000

MinuteMs == 60000

HourMs == 3600000

-----------------------------------------------------------------------------
(* Feedback: the debug panel (tagged normal / success / error) and speech  *)

Debug(text, tag) == [sink |-> "debug", tag |-> tag, text |-> text]

\* faulty variant: speaks whatever the flag says
speak_Always(text, enabled) ==
    IF text = <<>> THEN <<>>
    ELSE <<[sink |-> "speak", tag |-> "spoken", text |-> text]>>

\* speak(text): nothing is spoken while voice responses are disabled
speak(text, enabled) ==
    IF ~enabled \/ text = <<>> THEN <<>>
    ELSE <<[sink |-> "speak", tag |-> "spoken", text |-> text]>>

\* new Date().toLocaleTimeString() inside brackets; the clock text is not modelled
Stamp == <<"[","t","i","m","e","]"," ">>

roomName(room) == replace(Chars(room), <<"-">>, <<" ">>)

\* room.replace is no function when normalizeRoom returned an inherited object:
\* the template that names the room throws a TypeError
replaceThrows(room) == room = NotARoom

formatSuccessMessage(command) ==
    CASE command.device = "lights" ->
            IF command.action = "dim"
            THEN roomName(command.room) \o <<" ","l","i","g","h","t","s"," ","d","i","m","m","e","d"," ","t","o"," ">> \o NumChars(command.value) \o <<"%">>
            ELSE roomName(command.room) \o <<" ","l","i","g","h","t","s"," ","t","u","r","n","e","d"," ">> \o Chars(command.action)
      [] command.device = "thermostat" ->
            roomName(command.room) \o <<" ","t","e","m","p","e","r","a","t","u","r","e"," ","s","e","t"," ","t","o"," ">> \o NumChars(command.value)
                \o <<"\\u00ac", "\\u221e", "F">>
      [] command.device = "music" ->
            <<"M","u","s","i","c"," ">> \o Chars(command.value) \o <<" ","i","n"," ">> \o roomName(command.room)
      [] command.device = "security" -> <<"S","e","c","u","r","i","t","y"," ","s","y","s","t","e","m"," ">> \o Chars(command.value)
      [] OTHER -> Chars(command.device) \o <<" ","i","n"," ">> \o roomName(command.room) \o <<" ","u","p","d","a","t","e","d">>

\* unit.includes('hour') ? 'hour' : 'minute'
unitKind(unit) == IF includes(unit, <<"h","o","u","r">>) THEN "hour" ELSE "minute"

\* the delay of a timer: minutes unless the unit contains "hour"
timerMilliseconds(duration, unit) ==
    IF includes(unit, <<"h","o","u","r">>) THEN duration * HourMs ELSE duration * MinuteMs

timeText(duration, unit) ==
    NumChars(duration) \o <<" ">> \o (IF includes(unit, <<"h","o","u","r">>) THEN <<"h","o","u","r">> ELSE <<"m","i","n","u","t","e">>)
        \o (IF duration > 1 THEN <<"s">> ELSE <<>>)

-----------------------------------------------------------------------------
(* Inputs and bounds                                                       *)

MaxCommands == 2    \* inputs handled in one run

MaxIdle == 1        \* idle milliseconds that pass between events in one run

\* utterances of the main specification
Utterances ==
    {<<"t","u","r","n"," ","o","n"," ","l","i","v","i","n","g"," ","r","o","o","m"," ","l","i","g","h","t","s">>,
     <<"t","u","r","n"," ","o","f","f"," ","b","e","d","r","o","o","m"," ","l","i","g","h","t","s"," ","i","n"," ","1","0"," ","m","i","n","u","t","e","s">>,
     <<"t","u","r","n"," ","o","f","f"," ","b","e","d","r","o","o","m"," ","l","i","g","h","t","s"," ","i","n"," ","1"," ","m","i","n","u","t","e">>,
     <<"g","o","o","d","n","i","g","h","t">>,
     <<"p","l","a","y"," ","m","u","s","i","c"," ","i","n"," ","k","i","t","c","h","e","n">>,
     <<"h","e","l","p">>}

\* utterances of the scene specification: every scene, and one device command
\* that can arrive while a scene is running
SceneUtterances ==
    {<<"m","o","v","i","e"," ","m","o","d","e">>, <<"G","o","o","d"," ","n","i","g","h","t">>, <<"w","a","k","e"," ","u","p">>, <<"p","a","r","t","y"," ","t","i","m","e">>,
     <<"t","u","r","n"," ","o","n"," ","l","i","v","i","n","g"," ","r","o","o","m"," ","l","i","g","h","t","s">>}

\* utterances of the timer specification: every unit form of the timer grammar,
\* and the "stop" phrasing
TimerUtterances ==
    {<<"t","u","r","n"," ","o","f","f"," ","k","i","t","c","h","e","n"," ","l","i","g","h","t","s"," ","i","n"," ","2"," ","m","i","n","u","t","e","s">>,
     <<"t","u","r","n"," ","o","f","f"," ","k","i","t","c","h","e","n"," ","l","i","g","h","t","s"," ","i","n"," ","1"," ","m","i","n","u","t","e">>,
     <<"t","u","r","n"," ","o","f","f"," ","b","e","d","r","o","o","m"," ","l","i","g","h","t","s"," ","i","n"," ","3"," ","m","i","n","s">>,
     <<"t","u","r","n"," ","o","f","f"," ","b","e","d","r","o","o","m"," ","l","i","g","h","t","s"," ","i","n"," ","1"," ","m","i","n">>,
     <<"t","u","r","n"," ","o","f","f"," ","k","i","t","c","h","e","n"," ","l","i","g","h","t","s"," ","i","n"," ","2"," ","h","o","u","r","s">>,
     <<"t","u","r","n"," ","o","f","f"," ","l","i","v","i","n","g"," ","r","o","o","m"," ","l","i","g","h","t","s"," ","i","n"," ","1"," ","h","o","u","r">>,
     <<"t","u","r","n"," ","o","f","f"," ","b","e","d","r","o","o","m"," ","l","i","g","h","t","s"," ","i","n"," ","2"," ","h","r","s">>,
     <<"t","u","r","n"," ","o","f","f"," ","l","i","v","i","n","g"," ","r","o","o","m"," ","l","i","g","h","t","s"," ","i","n"," ","1"," ","h","r">>,
     <<"S","t","o","p"," ","m","u","s","i","c"," ","i","n"," ","l","i","v","i","n","g"," ","r","o","o","m"," ","i","n"," ","1"," ","h","o","u","r">>,
     <<"s","t","o","p"," ","m","u","s","i","c"," ","i","n"," ","b","e","d","r","o","o","m"," ","i","n"," ","1"," ","m","i","n","u","t","e">>}

\* utterances of the parser specification: utterances that several rules
\* match, utterances that one rule matches, and utterances that none matches
ParseUtterances ==
    {<<"h","e","l","p"," ","m","e"," ","t","u","r","n"," ","o","n"," ","t","h","e"," ","l","i","g","h","t","s">>,
     <<"m","o","v","i","e"," ","m","o","d","e"," ","c","o","m","m","a","n","d","s">>,
     <<"g","o","o","d"," ","n","i","g","h","t"," ","p","a","r","t","y"," ","t","i","m","e">>,
     <<"w","a","k","e"," ","u","p"," ","i","n"," ","m","o","v","i","e"," ","m","o","d","e">>,
     <<"t","u","r","n"," ","o","f","f"," ","v","o","i","c","e"," ","i","n"," ","5"," ","m","i","n","u","t","e","s">>,
     <<"T","u","r","n"," ","o","f","f"," ","t","h","e"," ","l","i","g","h","t","s"," ","i","n"," ","t","h","e"," ","k","i","t","c","h","e","n"," ","i","n"," ","5"," ","m","i","n","u","t","e","s">>,
     <<"s","t","o","p"," ","m","u","s","i","c"," ","i","n"," ","b","e","d","r","o","o","m"," ","i","n"," ","2"," ","h","o","u","r","s"," ","g","o","o","d"," ","n","i","g","h","t">>,
     <<"e","n","a","b","l","e"," ","v","o","i","c","e"," ","a","n","d"," ","u","s","e"," ","w","h","i","s","p","e","r">>,
     <<"u","s","e"," ","w","e","b"," ","s","p","e","e","c","h"," ","a","n","d"," ","t","u","r","n"," ","o","n"," ","t","h","e"," ","l","i","g","h","t","s">>,
     <<"t","u","r","n"," ","o","n"," ","t","h","e"," ","k","i","t","c","h","e","n"," ","l","i","g","h","t","s">>,
     <<"k","i","t","c","h","e","n"," ","l","i","g","h","t","s"," ","o","n">>,
     <<"t","u","r","n"," ","o","n"," ","t","h","e"," ","l","i","g","h","t","s"," ","i","n"," ","t","h","e"," ","b","e","d","r","o","o","m">>,
     <<"d","i","m"," ","t","h","e"," ","b","e","d","r","o","o","m"," ","l","i","g","h","t","s"," ","t","o"," ","3","0"," ","p","e","r","c","e","n","t">>,
     <<"s","e","t"," ","t","h","e"," ","t","e","m","p","e","r","a","t","u","r","e"," ","t","o"," ","7","2"," ","d","e","g","r","e","e","s"," ","i","n"," ","t","h","e"," ","k","i","t","c","h","e","n">>,
     <<"s","e","t"," ","t","h","e"," ","b","e","d","r","o","o","m"," ","t","e","m","p","e","r","a","t","u","r","e"," ","t","o"," ","7","0">>,
     <<"p","l","a","y"," ","m","u","s","i","c"," ","a","n","d"," ","t","u","r","n"," ","o","n"," ","t","h","e"," ","l","i","g","h","t","s">>,
     <<"m","u","s","i","c"," ","o","f","f"," ","i","n"," ","t","h","e"," ","b","e","d","r","o","o","m">>,
     <<"a","r","m"," ","t","h","e"," ","s","e","c","u","r","i","t","y"," ","s","y","s","t","e","m">>,
     <<"o","p","e","n"," ","t","h","e"," ","p","o","d"," ","b","a","y"," ","d","o","o","r","s">>,
     <<"s","w","i","t","c","h"," ","t","h","e"," ","k","e","t","t","l","e"," ","o","n">>}

\* the alias keys of roomMap
Aliases == {roomMap[k][1] : k \in 1..Len(roomMap)}

\* every truncation of s, the empty one and s itself included
Prefixes(s) == {SubSeq(s, 1, n) : n \in 0..Len(s)}

toUpperCase(s) ==
    [i \in 1..Len(s) |->
        IF \E c \in DOMAIN UpperToLower : UpperToLower[c] = s[i]
        THEN CHOOSE c \in DOMAIN UpperToLower : UpperToLower[c] = s[i]
        ELSE s[i]]

\* white space that may surround a room name
Paddings == {<<>>, <<" ">>, <<"\t", " ">>}

\* an alias in lower or upper case, surrounded by white space
Dressed(alias) ==
    {before \o word \o after :
        before \in Paddings, after \in Paddings, word \in {alias, toUpperCase(alias)}}

\* names that are no alias and no truncation of one
OtherRoomNames ==
    {<<" ">>, <<"g","a","r","a","g","e">>, <<"c","o","n","s","t","r","u","c","t","o","r">>, <<"C","o","n","s","t","r","u","c","t","o","r">>, <<"_","_","p","r","o","t","o","_","_">>, <<"t","h","e"," ","b","e","d","r","o","o","m">>,
     <<"b","e","d","r","o","o","m"," ","l","i","g","h","t","s">>, <<"x","y","z">>}

\* room names given to normalizeRoom
RoomNames ==
    UNION {Prefixes(alias) : alias \in Aliases}
        \cup UNION {Dressed(alias) : alias \in Aliases}
        \cup OtherRoomNames

\* utterances of the device specification: values at the edges of the
\* domains, a device its room lacks, a scene and a timer
DeviceUtterances ==
    {<<"d","i","m"," ","t","h","e"," ","b","e","d","r","o","o","m"," ","l","i","g","h","t","s"," ","t","o"," ","1","5","0"," ","p","e","r","c","e","n","t">>,
     <<"s","e","t"," ","t","e","m","p","e","r","a","t","u","r","e"," ","t","o"," ","9","9","9"," ","d","e","g","r","e","e","s">>,
     <<"m","u","s","i","c"," ","o","n">>,
     <<"p","a","u","s","e"," ","m","u","s","i","c"," ","i","n"," ","t","h","e"," ","b","e","d","r","o","o","m">>,
     <<"p","l","a","y"," ","m","u","s","i","c"," ","i","n"," ","k","i","t","c","h","e","n">>,
     <<"d","i","s","a","r","m"," ","s","e","c","u","r","i","t","y">>,
     <<"p","a","r","t","y"," ","m","o","d","e">>,
     <<"t","u","r","n"," ","o","f","f"," ","k","i","t","c","h","e","n"," ","l","i","g","h","t","s"," ","i","n"," ","1"," ","m","i","n","u","t","e">>}

\* device cards that are clicked: <<room, device>> of the card
CardClicks ==
    {<<"living-room", "lights">>, <<"kitchen", "thermostat">>, <<"bedroom", "music">>,
     <<"kitchen", "security">>, <<"kitchen", "music">>}

\* reported confidences, in percent (100 also stands for "none reported")
\* processCommand(command, confidence = 1), in percent
DefaultConfidence == 100

Confidences == {69, DefaultConfidence}

\* names executeScene is called with: the defined scenes and others
UnknownScenes == {"romantic", "constructor"}

SceneCalls == SceneNames \cup UnknownScenes

\* utterances of the specification of scene calls
SceneCallUtterances == {<<"t","u","r","n"," ","o","f","f"," ","v","o","i","c","e">>}

\* an entry an earlier session has stored: an unrecognized utterance, the i-th
\* newest, recorded i ms before the page was loaded
StoredEntry(i) ==
    [command |-> <<"o","l","d"," ","c","o","m","m","a","n","d"," ">> \o NumChars(i), parsed |-> Null, success |-> FALSE,
     timestamp |-> 0 - i]

\* localStorage['smartHomeCommandHistory'] as saveCommandHistory leaves it
StoredHistory(n) == [i \in 1..n |-> StoredEntry(i)]

HistoryLengths == {0, maxHistoryLength - 1, maxHistoryLength}

\* utterances of the history specification
HistoryUtterances ==
    {<<"t","u","r","n"," ","o","n"," ","l","i","v","i","n","g"," ","r","o","o","m"," ","l","i","g","h","t","s">>, <<"o","p","e","n"," ","t","h","e"," ","p","o","d"," ","b","a","y"," ","d","o","o","r","s">>, <<"m","u","s","i","c"," ","o","n">>}

\* utterances of the specification with fairness: a device command, a scene
\* and a timer, all on lights
LiveUtterances ==
    {<<"t","u","r","n"," ","o","n"," ","l","i","v","i","n","g"," ","r","o","o","m"," ","l","i","g","h","t","s">>, <<"g","o","o","d","n","i","g","h","t">>, <<"t","u","r","n"," ","o","f","f"," ","k","i","t","c","h","e","n"," ","l","i","g","h","t","s"," ","i","n"," ","1"," ","m","i","n","u","t","e">>}

\* the dim grammar: "dim [the] [<room>] lights to N [percent]", <room> an
\* alias of the normalizer's table
DimLevels == {0, 1, 50, 100, 101, 150, 999}

DimArticles == {<<>>, <<"t","h","e"," ">>}

DimSuffixes == {<<>>, <<" ","p","e","r","c","e","n","t">>, <<"%">>}

DimUtterance(article, room, n, suffix) ==
    <<"d","i","m"," ">> \o article \o (IF room = <<>> THEN <<>> ELSE room \o <<" ">>)
        \o <<"l","i","g","h","t","s"," ","t","o"," ">> \o NumChars(n) \o suffix

DimUtterances ==
    {DimUtterance(article, room, n, suffix) :
        article \in DimArticles, room \in Aliases \cup {<<>>},
        n \in DimLevels, suffix \in DimSuffixes}

\* the lights on/off grammar: the four phrasings of the lights patterns,
\* `room` an alias of the normalizer's table or empty when no room is named
OnOffWords == {<<"o","n">>, <<"o","f","f">>}

LightsNaming(room) ==
    IF room = <<>>
    THEN {turn \o onoff \o <<" ">> \o article \o <<"l","i","g","h","t","s">> :
            turn \in {<<>>, <<"t","u","r","n"," ">>}, onoff \in OnOffWords, article \in DimArticles}
         \cup {<<"l","i","g","h","t","s"," ">> \o onoff : onoff \in OnOffWords}
    ELSE {<<"t","u","r","n"," ">> \o onoff \o <<" ">> \o article \o room \o <<" ","l","i","g","h","t","s">> :
            onoff \in OnOffWords, article \in DimArticles}
         \cup {room \o <<" ","l","i","g","h","t","s"," ">> \o onoff : onoff \in OnOffWords}
         \cup {turn \o onoff \o <<" ">> \o article \o <<"l","i","g","h","t","s"," ","i","n"," ">> \o inThe \o room :
                 turn \in {<<>>, <<"t","u","r","n"," ">>}, onoff \in OnOffWords, article \in DimArticles,
                 inThe \in DimArticles}
         \cup {<<"l","i","g","h","t","s"," ">> \o onoff \o <<" ","i","n"," ">> \o inThe \o room :
                 onoff \in OnOffWords, inThe \in DimArticles}

LightsUtterances == UNION {LightsNaming(room) : room \in Aliases \cup {<<>>}}

\* the scene keyword phrasings, each with the scene the README gives for it
ScenePhrasings ==
    << <<<<"m","o","v","i","e"," ","m","o","d","e">>, "movie">>, <<<<"c","i","n","e","m","a"," ","m","o","d","e">>, "movie">>,
       <<<<"g","o","o","d","n","i","g","h","t">>, "goodnight">>, <<<<"g","o","o","d"," ","n","i","g","h","t">>, "goodnight">>,
       <<<<"w","a","k","e"," ","u","p">>, "morning">>, <<<<"m","o","r","n","i","n","g"," ","m","o","d","e">>, "morning">>,
       <<<<"p","a","r","t","y"," ","m","o","d","e">>, "party">>, <<<<"p","a","r","t","y"," ","t","i","m","e">>, "party">> >>

\* words around a phrasing
PhraseLeads == {<<>>, <<"a","c","t","i","v","a","t","e"," ">>, <<"s","t","a","r","t"," ","t","h","e"," ">>, <<"o","k"," ">>}

PhraseTails == {<<>>, <<" ","p","l","e","a","s","e">>, <<" ","n","o","w">>, <<" ","e","v","e","r","y","o","n","e">>}

ScenePhraseUtterances ==
    {lead \o ScenePhrasings[k][1] \o tail :
        k \in 1..Len(ScenePhrasings), lead \in PhraseLeads, tail \in PhraseTails}

\* lower-case utterances that are both processed and handed to the parser
PureUtterances ==
    {<<"l","i","g","h","t","s"," ","o","n">>, <<"g","o","o","d","n","i","g","h","t">>, <<"t","u","r","n"," ","o","f","f"," ","k","i","t","c","h","e","n"," ","l","i","g","h","t","s"," ","i","n"," ","1"," ","m","i","n","u","t","e">>,
     <<"o","p","e","n"," ","t","h","e"," ","p","o","d"," ","b","a","y"," ","d","o","o","r","s">>}

\* the timer grammar for lights: "turn off [the] <room> lights in N <unit>",
\* <room> an alias of the normalizer's table
TimerSpans == {<<"1"," ","m","i","n","u","t","e">>, <<"1","0"," ","m","i","n","u","t","e","s">>, <<"2"," ","h","o","u","r","s">>, <<"1"," ","h","r">>}

TimerNaming(room) ==
    {<<"t","u","r","n"," ","o","f","f"," ">> \o article \o room \o <<" ","l","i","g","h","t","s"," ","i","n"," ">> \o span :
        article \in DimArticles, span \in TimerSpans}

TimerRoomUtterances == UNION {TimerNaming(room) : room \in Aliases}

\* the two voice settings, with a device command, a scene and a timer whose
\* callbacks speak
VoiceUtterances ==
    {<<"t","u","r","n"," ","o","f","f"," ","v","o","i","c","e">>, <<"t","u","r","n"," ","o","n"," ","v","o","i","c","e">>, <<"t","u","r","n"," ","o","n"," ","l","i","v","i","n","g"," ","r","o","o","m"," ","l","i","g","h","t","s">>, <<"g","o","o","d","n","i","g","h","t">>,
     <<"t","u","r","n"," ","o","f","f"," ","k","i","t","c","h","e","n"," ","l","i","g","h","t","s"," ","i","n"," ","1"," ","m","i","n","u","t","e">>}

\* utterances the parser answers with an intent that is carried out, with an
\* intent that fails on the device or on the room, and with null
RecordedUtterances ==
    {<<"t","u","r","n"," ","o","n"," ","l","i","v","i","n","g"," ","r","o","o","m"," ","l","i","g","h","t","s">>, <<"p","l","a","y"," ","m","u","s","i","c"," ","i","n"," ","k","i","t","c","h","e","n">>, <<"l","i","g","h","t","s"," ","o","n"," ","i","n"," ","c","o","n","s","t","r","u","c","t","o","r">>,
     <<"t","u","r","n"," ","o","f","f"," ","c","o","n","s","t","r","u","c","t","o","r"," ","i","n"," ","1"," ","m","i","n","u","t","e">>, <<"o","p","e","n"," ","t","h","e"," ","p","o","d"," ","b","a","y"," ","d","o","o","r","s">>, <<"h","e","l","p">>}

\* device commands; three of them are for the lights of the living room
OrderUtterances ==
    {<<"t","u","r","n"," ","o","n"," ","l","i","v","i","n","g"," ","r","o","o","m"," ","l","i","g","h","t","s">>, <<"t","u","r","n"," ","o","f","f"," ","l","i","v","i","n","g"," ","r","o","o","m"," ","l","i","g","h","t","s">>,
     <<"d","i","m"," ","l","i","v","i","n","g"," ","r","o","o","m"," ","l","i","g","h","t","s"," ","t","o"," ","5","0"," ","p","e","r","c","e","n","t">>, <<"m","u","s","i","c"," ","o","n">>}

\* help and the four settings, with a device command and a timer whose
\* callbacks are pending meanwhile
SettingsUtterances ==
    {<<"h","e","l","p">>, <<"t","u","r","n"," ","o","f","f"," ","v","o","i","c","e">>, <<"t","u","r","n"," ","o","n"," ","v","o","i","c","e">>, <<"u","s","e"," ","w","h","i","s","p","e","r">>, <<"u","s","e"," ","w","e","b"," ","s","p","e","e","c","h">>,
     <<"t","u","r","n"," ","o","n"," ","l","i","v","i","n","g"," ","r","o","o","m"," ","l","i","g","h","t","s">>, <<"t","u","r","n"," ","o","f","f"," ","k","i","t","c","h","e","n"," ","l","i","g","h","t","s"," ","i","n"," ","1"," ","m","i","n","u","t","e">>}

\* recordings whose transcription is awaited at the same time
MaxTranscribing == 2

\* the two voice commands that switch the recogniser
ListeningUtterances == {<<"u","s","e"," ","w","h","i","s","p","e","r">>, <<"u","s","e"," ","w","e","b"," ","s","p","e","e","c","h">>}

\* commands for one device each, given after start-up
StartupUtterances ==
    {<<"m","u","s","i","c"," ","o","n">>, <<"p","l","a","y"," ","m","u","s","i","c"," ","i","n"," ","k","i","t","c","h","e","n">>, <<"d","i","s","a","r","m"," ","s","e","c","u","r","i","t","y">>,
     <<"p","a","u","s","e"," ","m","u","s","i","c"," ","i","n"," ","t","h","e"," ","b","e","d","r","o","o","m">>}

\* what a backend says about its confidence: a number (in percent), nothing
\* at all, or (in the JSON of the Whisper server) null
Number(percent) == [kind |-> "number", percent |-> percent]

Missing == [kind |-> "missing", percent |-> 0]

JsonNull == [kind |-> "null", percent |-> 0]

ReportedPercents == {0, 69, 70, 100}

\* transcripts the backends deliver, before trim()
Transcripts == {<<"t","u","r","n"," ","o","n"," ","l","i","v","i","n","g"," ","r","o","o","m"," ","l","i","g","h","t","s">>, <<" ","u","s","e"," ","w","h","i","s","p","e","r"," ">>, <<" "," ">>}

\* testDevice(room, device, value) calls tried from the console
TestDeviceCalls == {<<"garage", "lights", 100>>, <<"kitchen", "music", "playing">>}

\* parseCommand of every utterance of the model, computed once
ParseMemo ==
    [u \in Utterances \cup SceneUtterances \cup TimerUtterances \cup ParseUtterances
          \cup DeviceUtterances \cup {trim(t) : t \in Transcripts}
          \cup SceneCallUtterances \cup PureUtterances \cup VoiceUtterances
          \cup RecordedUtterances \cup OrderUtterances
          \cup SettingsUtterances \cup ListeningUtterances |->
        parseCommand(toLowerCase(u))]

-----------------------------------------------------------------------------
(* The application state a handler reads and returns                       *)

Cur ==
    [devices |-> devices, persisted |-> persisted, activeTimers |-> activeTimers,
     tasks |-> tasks, commandHistory |-> commandHistory,
     voiceResponseEnabled |-> voiceResponseEnabled,
     useWhisperBackend |-> useWhisperBackend, storedBackend |-> storedBackend,
     emitted |-> <<>>]

\* Math.random(), in tenths
RandomTenths == {0, 9}

\* Math.random() * 500 + 200
responseDelay(r) == (r * 500) \div 10 + 200

\* responses[Math.floor(Math.random() * responses.length)]
randomOf(responses, r) == responses[(r * Len(responses)) \div 10 + 1]

\* getRandomResponse('success', message)
successResponse(r, message) == randomOf(successResponses, r) \o <<" ">> \o message

\* this.devices[room][device] = value
assign(devs, room, device, value) ==
    [devs EXCEPT ![room] =
        [d \in (DOMAIN devs[room]) \cup {device} |->
            IF d = device THEN value ELSE devs[room][d]]]

\* saveDeviceStates: localStorage.setItem('smartHomeDevices', JSON.stringify(this.devices))
saveDeviceStates(st) == [st EXCEPT !.persisted = Snapshot(st.devices)]

\* setTimeout(callback, delay): the callback joins the pending ones
setTimeout(st, task, delay, by) ==
    [st EXCEPT !.tasks = Append(@, [task EXCEPT !.due = now + delay, !.delay = delay,
                                                !.by = by])]

Task(kind, command) == [kind |-> kind, command |-> command, due |-> 0, delay |-> 0, by |-> 0]

emit(st, entries) == [st EXCEPT !.emitted = @ \o entries]

\* faulty variant: help also saves the device store
showHelp_Saves(st, by) ==
    LET said == emit(st, <<Debug(<<"H","e","l","p"," ","s","y","s","t","e","m"," ","a","c","t","i","v","a","t","e","d">>, "success")>>
                         \o speak(<<"I"," ","c","a","n"," ","c","o","n","t","r","o","l"," ","y","o","u","r"," ","s","m","a","r","t"," ","h","o","m","e"," ","d","e","v","i","c","e","s",".">>,
                                  st.voiceResponseEnabled))
    IN  setTimeout(saveDeviceStates(said), Task("help", HelpIntent), HelpDelayMs, by)

showHelp(st, by) ==
    LET said == emit(st, <<Debug(<<"H","e","l","p"," ","s","y","s","t","e","m"," ","a","c","t","i","v","a","t","e","d">>, "success")>>
                         \o speak(<<"I"," ","c","a","n"," ","c","o","n","t","r","o","l"," ","y","o","u","r"," ","s","m","a","r","t"," ","h","o","m","e"," ","d","e","v","i","c","e","s",".">>,
                                  st.voiceResponseEnabled))
    IN  setTimeout(said, Task("help", HelpIntent), HelpDelayMs, by)

RECURSIVE scheduleSteps(_, _, _, _), scheduleSteps_Reversed(_, _, _, _)

\* faulty variant: the last step gets the shortest delay
scheduleSteps_Reversed(st, sceneName, index, by) ==
    IF index >= Len(scenes[sceneName]) THEN st
    ELSE scheduleSteps_Reversed(
            setTimeout(st, Task("sceneStep", [scene |-> sceneName, index |-> index]),
                       (Len(scenes[sceneName]) - 1 - index) * SceneStepMs, by),
            sceneName, index + 1, by)

\* scenes.forEach((command, index) => setTimeout(..., index * 500))
scheduleSteps(st, sceneName, index, by) ==
    IF index >= Len(scenes[sceneName]) THEN st
    ELSE scheduleSteps(
            setTimeout(st, Task("sceneStep", [scene |-> sceneName, index |-> index]),
                       index * SceneStepMs, by),
            sceneName, index + 1, by)

\* names that this.scenes[sceneName] finds on Object.prototype
InheritedScenes == {"constructor"}

\* faulty variant: the confirmation is scheduled before the scene is looked up
executeScene_ConfirmsUnknown(st, sceneName, by) ==
    IF sceneName \notin DOMAIN scenes
    THEN setTimeout(emit(st, speak(<<"S","o","r","r","y",","," ","I"," ","d","o","n","'","t"," ","k","n","o","w"," ","t","h","e"," ">> \o Chars(sceneName) \o <<" ","s","c","e","n","e",".">>,
                                   st.voiceResponseEnabled)),
                    Task("sceneDone", [scene |-> sceneName]), 0, by)
    ELSE
      LET said == emit(st, <<Debug(<<"E","x","e","c","u","t","i","n","g"," ">> \o Chars(sceneName) \o <<" ","s","c","e","n","e",".",".",".">>, "success")>>
                           \o speak(<<"A","c","t","i","v","a","t","i","n","g"," ">> \o Chars(sceneName) \o <<" ","m","o","d","e",".">>,
                                    st.voiceResponseEnabled))
          stepped == scheduleSteps(said, sceneName, 0, by)
          saved == saveDeviceStates(stepped)
      IN  setTimeout(saved, Task("sceneDone", [scene |-> sceneName]),
                     Len(scenes[sceneName]) * SceneStepMs, by)

\* an inherited name is truthy, so the scene is announced, and scenes.forEach
\* then throws a TypeError
executeScene(st, sceneName, by) ==
    IF sceneName \in InheritedScenes
    THEN emit(st, <<Debug(<<"E","x","e","c","u","t","i","n","g"," ">> \o Chars(sceneName) \o <<" ","s","c","e","n","e",".",".",".">>, "success")>>
                  \o speak(<<"A","c","t","i","v","a","t","i","n","g"," ">> \o Chars(sceneName) \o <<" ","m","o","d","e",".">>,
                           st.voiceResponseEnabled))
    ELSE IF sceneName \notin DOMAIN scenes
    THEN emit(st, speak(<<"S","o","r","r","y",","," ","I"," ","d","o","n","'","t"," ","k","n","o","w"," ","t","h","e"," ">> \o Chars(sceneName) \o <<" ","s","c","e","n","e",".">>,
                        st.voiceResponseEnabled))
    ELSE
      LET said == emit(st, <<Debug(<<"E","x","e","c","u","t","i","n","g"," ">> \o Chars(sceneName) \o <<" ","s","c","e","n","e",".",".",".">>, "success")>>
                           \o speak(<<"A","c","t","i","v","a","t","i","n","g"," ">> \o Chars(sceneName) \o <<" ","m","o","d","e",".">>,
                                    st.voiceResponseEnabled))
          stepped == scheduleSteps(said, sceneName, 0, by)
          saved == saveDeviceStates(stepped)
      IN  setTimeout(saved, Task("sceneDone", [scene |-> sceneName]),
                     Len(scenes[sceneName]) * SceneStepMs, by)

\* `${room}-${device}-${Date.now()}`
timerIdOf(room, device, t) == <<room, device, t>>

setTimer(st, command, by) ==
    LET milliseconds == timerMilliseconds(command.duration, command.unit)
        timerId == timerIdOf(command.room, command.device, now)
        timer == [room |-> command.room, device |-> command.device,
                  action |-> command.action, endTime |-> now + milliseconds,
                  duration |-> command.duration, unit |-> unitKind(command.unit)]
        \* Map.prototype.set: adds the key or replaces its value
        registered ==
            [st EXCEPT !.activeTimers =
                [id \in (DOMAIN @) \cup {timerId} |-> IF id = timerId THEN timer ELSE @[id]]]
        text == timeText(command.duration, command.unit)
        said == emit(registered,
                     <<Debug(<<"T","i","m","e","r"," ","s","e","t",":"," ">> \o Chars(command.action) \o <<" ">>
                             \o roomName(command.room) \o <<" ">> \o Chars(command.device)
                             \o <<" ","i","n"," ">> \o text, "success")>>
                     \o speak(<<"T","i","m","e","r"," ","s","e","t","."," ","I","'","l","l"," ">> \o Chars(command.action) \o <<" ","t","h","e"," ">>
                              \o roomName(command.room) \o <<" ">> \o Chars(command.device)
                              \o <<" ","i","n"," ">> \o text \o <<".">>, st.voiceResponseEnabled))
    IN  IF replaceThrows(command.room) THEN registered
        ELSE
        setTimeout(said,
                   Task("timer", [timerId |-> timerId, room |-> command.room,
                                  device |-> command.device, action |-> command.action,
                                  duration |-> command.duration, unit |-> command.unit]),
                   milliseconds, by)

\* faulty variant: the switch to Whisper does not look at the health check
handleSettings_Unchecked(st, command, available) ==
    CASE command.action = "disable_voice" ->
            emit([st EXCEPT !.voiceResponseEnabled = FALSE],
                 <<Debug(<<"V","o","i","c","e"," ","r","e","s","p","o","n","s","e","s"," ","d","i","s","a","b","l","e","d">>, "success")>>
                 \o speak(<<"V","o","i","c","e"," ","r","e","s","p","o","n","s","e","s"," ","a","r","e"," ","n","o","w"," ","d","i","s","a","b","l","e","d",".">>, FALSE))
      [] command.action = "enable_voice" ->
            emit([st EXCEPT !.voiceResponseEnabled = TRUE],
                 <<Debug(<<"V","o","i","c","e"," ","r","e","s","p","o","n","s","e","s"," ","e","n","a","b","l","e","d">>, "success")>>
                 \o speak(<<"V","o","i","c","e"," ","r","e","s","p","o","n","s","e","s"," ","a","r","e"," ","n","o","w"," ","e","n","a","b","l","e","d",".">>, TRUE))
      [] command.action = "use_whisper" ->
            IF TRUE
            THEN emit([st EXCEPT !.useWhisperBackend = TRUE, !.storedBackend = "true"],
                      <<Debug(<<"S","w","i","t","c","h","e","d"," ","t","o"," ","W","h","i","s","p","e","r"," ","b","a","c","k","e","n","d">>, "success")>>
                      \o speak(<<"N","o","w"," ","u","s","i","n","g"," ","W","h","i","s","p","e","r"," ","f","o","r"," ","m","o","r","e"," ","a","c","c","u","r","a","t","e"," ","s","p","e","e","c","h"," ","r","e","c","o","g","n","i","t","i","o","n",".">>,
                               st.voiceResponseEnabled))
            ELSE emit(st, <<Debug(<<"W","h","i","s","p","e","r"," ","b","a","c","k","e","n","d"," ","n","o","t"," ","a","v","a","i","l","a","b","l","e">>, "error")>>
                          \o speak(<<"W","h","i","s","p","e","r"," ","b","a","c","k","e","n","d"," ","i","s"," ","n","o","t"," ","a","v","a","i","l","a","b","l","e","."," ","P","l","e","a","s","e"," ","s","t","a","r","t"," ","t","h","e"," ","P","y","t","h","o","n"," ","s","e","r","v","e","r",".">>,
                                   st.voiceResponseEnabled))
      [] command.action = "use_webspeech" ->
            emit([st EXCEPT !.useWhisperBackend = FALSE, !.storedBackend = "false"],
                 <<Debug(<<"S","w","i","t","c","h","e","d"," ","t","o"," ","W","e","b"," ","S","p","e","e","c","h"," ","A","P","I">>, "success")>>
                 \o speak(<<"N","o","w"," ","u","s","i","n","g"," ","b","r","o","w","s","e","r"," ","s","p","e","e","c","h"," ","r","e","c","o","g","n","i","t","i","o","n",".">>, st.voiceResponseEnabled))
      [] OTHER -> st

handleSettings(st, command, available) ==
    CASE command.action = "disable_voice" ->
            emit([st EXCEPT !.voiceResponseEnabled = FALSE],
                 <<Debug(<<"V","o","i","c","e"," ","r","e","s","p","o","n","s","e","s"," ","d","i","s","a","b","l","e","d">>, "success")>>
                 \o speak(<<"V","o","i","c","e"," ","r","e","s","p","o","n","s","e","s"," ","a","r","e"," ","n","o","w"," ","d","i","s","a","b","l","e","d",".">>, FALSE))
      [] command.action = "enable_voice" ->
            emit([st EXCEPT !.voiceResponseEnabled = TRUE],
                 <<Debug(<<"V","o","i","c","e"," ","r","e","s","p","o","n","s","e","s"," ","e","n","a","b","l","e","d">>, "success")>>
                 \o speak(<<"V","o","i","c","e"," ","r","e","s","p","o","n","s","e","s"," ","a","r","e"," ","n","o","w"," ","e","n","a","b","l","e","d",".">>, TRUE))
      [] command.action = "use_whisper" ->
            IF available
            THEN emit([st EXCEPT !.useWhisperBackend = TRUE, !.storedBackend = "true"],
                      <<Debug(<<"S","w","i","t","c","h","e","d"," ","t","o"," ","W","h","i","s","p","e","r"," ","b","a","c","k","e","n","d">>, "success")>>
                      \o speak(<<"N","o","w"," ","u","s","i","n","g"," ","W","h","i","s","p","e","r"," ","f","o","r"," ","m","o","r","e"," ","a","c","c","u","r","a","t","e"," ","s","p","e","e","c","h"," ","r","e","c","o","g","n","i","t","i","o","n",".">>,
                               st.voiceResponseEnabled))
            ELSE emit(st, <<Debug(<<"W","h","i","s","p","e","r"," ","b","a","c","k","e","n","d"," ","n","o","t"," ","a","v","a","i","l","a","b","l","e">>, "error")>>
                          \o speak(<<"W","h","i","s","p","e","r"," ","b","a","c","k","e","n","d"," ","i","s"," ","n","o","t"," ","a","v","a","i","l","a","b","l","e","."," ","P","l","e","a","s","e"," ","s","t","a","r","t"," ","t","h","e"," ","P","y","t","h","o","n"," ","s","e","r","v","e","r",".">>,
                                   st.voiceResponseEnabled))
      [] command.action = "use_webspeech" ->
            emit([st EXCEPT !.useWhisperBackend = FALSE, !.storedBackend = "false"],
                 <<Debug(<<"S","w","i","t","c","h","e","d"," ","t","o"," ","W","e","b"," ","S","p","e","e","c","h"," ","A","P","I">>, "success")>>
                 \o speak(<<"N","o","w"," ","u","s","i","n","g"," ","b","r","o","w","s","e","r"," ","s","p","e","e","c","h"," ","r","e","c","o","g","n","i","t","i","o","n",".">>, st.voiceResponseEnabled))
      [] OTHER -> st

\* faulty variant: the device-existence check is missing
executeCommand_NoDeviceCheck(st, command, available, r, by) ==
    CASE command.type = "help" -> showHelp(st, by)
      [] command.type = "scene" -> executeScene(st, command.action, by)
      [] command.type = "timer" -> setTimer(st, command, by)
      [] command.type = "settings" -> handleSettings(st, command, available)
      [] OTHER ->
            IF command.room \notin DOMAIN st.devices
            THEN emit(st, <<Debug(<<"R","o","o","m"," ">> \o Chars(command.room) \o <<" ","n","o","t"," ","f","o","u","n","d">>, "error")>>)
            ELSE setTimeout(st, Task("device", command), responseDelay(r), by)

\* r is the Math.random() drawn for the device-response delay
executeCommand(st, command, available, r, by) ==
    CASE command.type = "help" -> showHelp(st, by)
      [] command.type = "scene" -> executeScene(st, command.action, by)
      [] command.type = "timer" -> setTimer(st, command, by)
      [] command.type = "settings" -> handleSettings(st, command, available)
      [] OTHER ->
            IF replaceThrows(command.room)
            THEN emit(st, <<Debug(<<"R","o","o","m"," ">> \o Chars(command.room) \o <<" ","n","o","t"," ","f","o","u","n","d">>, "error")>>)
            ELSE IF command.room \notin DOMAIN st.devices
            THEN emit(st, <<Debug(<<"R","o","o","m"," ">> \o Chars(command.room) \o <<" ","n","o","t"," ","f","o","u","n","d">>, "error")>>
                          \o speak(<<"S","o","r","r","y",","," ","I"," ","d","o","n","'","t"," ","h","a","v","e"," ","a"," ">> \o roomName(command.room)
                                   \o <<" ","c","o","n","f","i","g","u","r","e","d",".">>, st.voiceResponseEnabled))
            ELSE IF command.device \notin DOMAIN st.devices[command.room]
            THEN emit(st, <<Debug(<<"D","e","v","i","c","e"," ">> \o Chars(command.device) \o <<" ","n","o","t"," ","f","o","u","n","d"," ","i","n"," ">>
                                  \o Chars(command.room), "error")>>
                          \o speak(<<"S","o","r","r","y",","," ","I"," ","c","o","u","l","d","n","'","t"," ","f","i","n","d"," ","t","h","e"," ">> \o Chars(command.device)
                                   \o <<" ","i","n"," ","t","h","e"," ">> \o roomName(command.room) \o <<".">>,
                                   st.voiceResponseEnabled))
            ELSE setTimeout(st, Task("device", command), responseDelay(r), by)

\* faulty variant: the newest entries are cut instead of the oldest
addCommandToHistory_CutsNewest(st, command, parsed, success) ==
    LET entry == [command |-> command, parsed |-> parsed, success |-> success,
                  timestamp |-> now]
        grown == <<entry>> \o st.commandHistory
    IN  [st EXCEPT !.commandHistory =
            IF Len(grown) > maxHistoryLength THEN SubSeq(grown, 2, maxHistoryLength + 1)
            ELSE grown]

\* commandHistory.unshift(entry), cut to maxHistoryLength
addCommandToHistory(st, command, parsed, success) ==
    LET entry == [command |-> command, parsed |-> parsed, success |-> success,
                  timestamp |-> now]
        grown == <<entry>> \o st.commandHistory
    IN  [st EXCEPT !.commandHistory =
            IF Len(grown) > maxHistoryLength THEN SubSeq(grown, 1, maxHistoryLength)
            ELSE grown]

\* this.parseCommand(command.toLowerCase())
parsed(command) ==
    IF command \in DOMAIN ParseMemo THEN ParseMemo[command]
    ELSE parseCommand(toLowerCase(command))

\* faulty variant: the threshold is taken ten points too low
isRejected_Lax(confidence) == confidence < confidenceThreshold - 10 /\ confidence < 100

\* confidence in percent: confidence < 1 is confidence < 100
isRejected(confidence) == confidence < confidenceThreshold /\ confidence < 100

\* executeCommand ends by a TypeError, which leaves processCommand at once: a
\* device or timer command whose room is no string
executeCommandThrows(command) ==
    /\ command.type \notin {"help", "scene", "settings"}
    /\ replaceThrows(command.room)

\* faulty variant: an unrecognised command leaves no history entry
processCommand_NoFailedEntry(st, command, confidence, available, r, by) ==
    LET heard == emit(st, <<Debug(Stamp \o <<"\"">> \o command \o <<"\"">>, "normal")>>)
        parsedCommand == parsed(command)
    IN  IF isRejected(confidence)
        THEN emit(heard, <<Debug(Stamp \o <<"L","o","w"," ","c","o","n","f","i","d","e","n","c","e",","," ","p","l","e","a","s","e"," ","r","e","p","e","a","t">>, "error")>>
                         \o speak(<<"S","o","r","r","y",","," ","I"," ","d","i","d","n","'","t"," ","h","e","a","r"," ","t","h","a","t"," ","c","l","e","a","r","l","y","."," ","C","o","u","l","d"," ","y","o","u"," ","p","l","e","a","s","e"," ","r","e","p","e","a","t","?">>,
                                  st.voiceResponseEnabled))
        ELSE IF parsedCommand.type # "null"
        THEN IF executeCommandThrows(parsedCommand)
             THEN executeCommand(heard, parsedCommand, available, r, by)
             ELSE addCommandToHistory(executeCommand(heard, parsedCommand, available, r, by),
                                      command, parsedCommand, TRUE)
        ELSE emit(heard, <<Debug(Stamp \o <<"C","o","m","m","a","n","d"," ","n","o","t"," ","r","e","c","o","g","n","i","z","e","d">>, "error")>>
                         \o speak(randomOf(unrecognizedResponses, r),
                                  st.voiceResponseEnabled))

processCommand(st, command, confidence, available, r, by) ==
    LET confidenceText ==
            IF confidence < 100 THEN <<" ","(">> \o NumChars(confidence) \o <<"%",")">> ELSE <<>>
        heard == emit(st, <<Debug(Stamp \o <<"\"">> \o command \o <<"\"">> \o confidenceText,
                                  "normal")>>)
        parsedCommand == parsed(command)
    IN  IF isRejected(confidence)
        THEN emit(heard, <<Debug(Stamp \o <<"L","o","w"," ","c","o","n","f","i","d","e","n","c","e",","," ","p","l","e","a","s","e"," ","r","e","p","e","a","t">>, "error")>>
                         \o speak(<<"S","o","r","r","y",","," ","I"," ","d","i","d","n","'","t"," ","h","e","a","r"," ","t","h","a","t"," ","c","l","e","a","r","l","y","."," ","C","o","u","l","d"," ","y","o","u"," ","p","l","e","a","s","e"," ","r","e","p","e","a","t","?">>,
                                  st.voiceResponseEnabled))
        ELSE IF parsedCommand.type # "null"
        THEN IF executeCommandThrows(parsedCommand)
             THEN executeCommand(heard, parsedCommand, available, r, by)
             ELSE addCommandToHistory(executeCommand(heard, parsedCommand, available, r, by),
                                      command, parsedCommand, TRUE)
        ELSE addCommandToHistory(
                emit(heard, <<Debug(Stamp \o <<"C","o","m","m","a","n","d"," ","n","o","t"," ","r","e","c","o","g","n","i","z","e","d">>, "error")>>
                            \o speak(randomOf(unrecognizedResponses, r),
                                     st.voiceResponseEnabled)),
                command, Null, FALSE)

\* testDevice(room, device, value), the console's debugging entry point
testDevice(st, room, device, value, available, r, by) ==
    executeCommand(st, DeviceIntent(device, room, "test", value), available, r, by)

\* the command a click on the card of room.device builds: a toggle, or the
\* next temperature of the cycle 68..76
cardCommand(devs, room, device) ==
    LET has == device \in DOMAIN devs[room]
        currentValue == devs[room][device]
    IN  CASE device = "lights" ->
                LET isOn == has /\ currentValue > 0
                IN  DeviceIntent("lights", room, IF isOn THEN "off" ELSE "on",
                                 IF isOn THEN 0 ELSE 100)
          [] device = "music" ->
                LET isPlaying == has /\ currentValue = "playing"
                IN  DeviceIntent("music", room, IF isPlaying THEN "stop" ELSE "play",
                                 IF isPlaying THEN "stopped" ELSE "playing")
          [] device = "security" ->
                LET isArmed == has /\ currentValue = "armed"
                IN  DeviceIntent("security", room, IF isArmed THEN "disarm" ELSE "arm",
                                 IF isArmed THEN "disarmed" ELSE "armed")
          [] device = "thermostat" ->
                LET temp == IF has THEN currentValue ELSE 72
                IN  DeviceIntent("thermostat", room, "set",
                                 IF temp >= 76 THEN 68 ELSE temp + 1)

\* the click handler of a device card
deviceCardClick(st, room, device, available, r, by) ==
    executeCommand(
        emit(st, <<Debug(<<"M","a","n","u","a","l"," ","c","o","n","t","r","o","l",":"," ">> \o Chars(device) \o <<" ","i","n"," ">> \o Chars(room),
                         "success")>>),
        cardCommand(st.devices, room, device), available, r, by)

\* event.results[i][0].confidence || 1
orOne(confidence) ==
    IF confidence.kind = "number" /\ confidence.percent # 0 THEN confidence.percent
    ELSE DefaultConfidence

\* recognition.onresult with one final result
onresult(st, transcript, confidence, available, r, by) ==
    IF trim(transcript) = << >> THEN st
    ELSE processCommand(st, trim(transcript), orOne(confidence), available, r, by)

\* result.confidence as processCommand(command, confidence = 1) sees it: the
\* default stands in for a missing property only, and null compares as 0
defaulted(confidence) ==
    IF confidence.kind = "missing" THEN DefaultConfidence ELSE confidence.percent

\* processWhisperAudio on a response with status 'success'
processWhisperAudio(st, text, confidence, available, r, by) ==
    IF trim(text) = << >> THEN st
    ELSE processCommand(st, trim(text), defaulted(confidence), available, r, by)

\* checkWhisperAvailability; outcome is what the fetch of /health came to
checkWhisperAvailability(st, outcome) ==
    CASE outcome = "healthy" -> emit(st, <<Debug(<<"W","h","i","s","p","e","r"," ","b","a","c","k","e","n","d"," ","a","v","a","i","l","a","b","l","e">>, "success")>>)
      [] outcome = "error" /\ st.useWhisperBackend ->
            emit([st EXCEPT !.useWhisperBackend = FALSE],
                 <<Debug(<<"W","h","i","s","p","e","r"," ","b","a","c","k","e","n","d"," ","u","n","a","v","a","i","l","a","b","l","e",","," ","f","a","l","l","i","n","g"," ","b","a","c","k"," ","t","o"," ","W","e","b"," ","S","p","e","e","c","h"," ","A","P","I">>,
                         "error")>>)
      [] OTHER -> st
-----
(* Initial state: the constructor                                          *)

\* the constructor: nothing is recorded or recognised yet
NotListening ==
    /\ isListening = FALSE
    /\ mediaRecorder = "null"
    /\ recognition = "idle"
    /\ transcribing = 0

Init ==
    /\ \E i \in 1..Len(StoredSnapshots) : persisted = StoredSnapshots[i]
    /\ devices = loadDeviceStates(persisted)
    /\ activeTimers = << >>
    /\ tasks = << >>
    /\ now = 0
    /\ commandHistory = << >>
    /\ voiceResponseEnabled = TRUE
    /\ useWhisperBackend = FALSE
    /\ storedBackend = Absent
    /\ whisperAvailable = FALSE
    /\ emitted = << >>
    /\ last = [op |-> "init"]
    /\ handled = 0
    /\ lastWrite = [r \in DOMAIN devices |-> [d \in DOMAIN devices[r] |-> [by |-> 0, at |-> 0]]]
    /\ idle = 0
    /\ NotListening

\* the application state a handler returned becomes the next state
Becomes(st) ==
    /\ devices' = st.devices
    /\ persisted' = st.persisted
    /\ activeTimers' = st.activeTimers
    /\ tasks' = st.tasks
    /\ commandHistory' = st.commandHistory
    /\ voiceResponseEnabled' = st.voiceResponseEnabled
    /\ useWhisperBackend' = st.useWhisperBackend
    /\ storedBackend' = st.storedBackend
    /\ emitted' = st.emitted

-----------------------------------------------------------------------------
(* Handlers                                                                *)

\* recognition.onresult / processWhisperAudio deliver an utterance
Delivered(command, confidence) ==
    /\ handled < MaxCommands
    /\ \E r \in RandomTenths :
          Becomes(processCommand(Cur, command, confidence, whisperAvailable, r, handled + 1))
    /\ handled' = handled + 1
    /\ last' = [op |-> "processCommand", command |-> command, confidence |-> confidence,
                parsed |-> parsed(command), by |-> handled + 1]
    /\ UNCHANGED <<now, whisperAvailable, lastWrite, idle>>

\* processCommand(command, confidence), whichever recogniser delivered it
ProcessCommand(command, confidence) ==
    /\ Delivered(command, confidence)
    /\ UNCHANGED listening

TestDevice(room, device, value) ==
    /\ handled < MaxCommands
    /\ \E r \in RandomTenths :
          Becomes(testDevice(Cur, room, device, value, whisperAvailable, r, handled + 1))
    /\ handled' = handled + 1
    /\ last' = [op |-> "testDevice", parsed |-> DeviceIntent(device, room, "test", value),
                by |-> handled + 1]
    /\ UNCHANGED <<now, whisperAvailable, lastWrite, idle, listening>>

DeviceCardClick(room, device) ==
    /\ handled < MaxCommands
    /\ \E r \in RandomTenths :
          Becomes(deviceCardClick(Cur, room, device, whisperAvailable, r, handled + 1))
    /\ handled' = handled + 1
    /\ last' = [op |-> "cardClick", parsed |-> cardCommand(devices, room, device),
                by |-> handled + 1]
    /\ UNCHANGED <<now, whisperAvailable, lastWrite, idle, listening>>

\* executeScene(sceneName), called on its own
ExecuteScene(sceneName) ==
    /\ handled < MaxCommands
    /\ Becomes(executeScene(Cur, sceneName, handled + 1))
    /\ handled' = handled + 1
    /\ last' = [op |-> "executeScene", scene |-> sceneName, by |-> handled + 1]
    /\ UNCHANGED <<now, whisperAvailable, lastWrite, idle, listening>>

HealthOutcomes == {"healthy", "unhealthy", "notOk", "error"}

\* the health check that init() starts comes back; it is taken to come back
\* before the first input
CheckWhisperAvailability(outcome) ==
    /\ last.op = "init"
    /\ Becomes(checkWhisperAvailability(Cur, outcome))
    /\ whisperAvailable' = CASE outcome = "healthy" -> TRUE
                              [] outcome = "notOk" -> whisperAvailable
                              [] OTHER -> FALSE
    /\ last' = [op |-> "checkWhisperAvailability", outcome |-> outcome]
    /\ UNCHANGED <<now, handled, lastWrite, idle, listening>>

\* what the handler of a transcript leaves in `last`
Heard(transcript, confidence, reported, backend) ==
    IF trim(transcript) = << >> THEN [op |-> "nothingHeard", by |-> handled + 1]
    ELSE [op |-> "processCommand", command |-> trim(transcript),
          confidence |-> confidence, parsed |-> parsed(trim(transcript)),
          by |-> handled + 1, reported |-> reported, backend |-> backend]

\* the Web Speech API delivers a final result
RecognitionResult(transcript, confidence) ==
    /\ handled < MaxCommands
    /\ ~(useWhisperBackend /\ whisperAvailable)
    /\ \E r \in RandomTenths :
          Becomes(onresult(Cur, transcript, confidence, whisperAvailable, r, handled + 1))
    /\ handled' = handled + 1
    /\ last' = Heard(transcript, orOne(confidence), confidence, "webspeech")
    /\ UNCHANGED <<now, whisperAvailable, lastWrite, idle, listening>>

\* the Whisper server answers a recording with status 'success'
WhisperResult(text, confidence) ==
    /\ handled < MaxCommands
    /\ useWhisperBackend /\ whisperAvailable
    /\ \E r \in RandomTenths :
          Becomes(processWhisperAudio(Cur, text, confidence, whisperAvailable, r,
                                      handled + 1))
    /\ handled' = handled + 1
    /\ last' = Heard(text, defaulted(confidence), confidence, "whisper")
    /\ UNCHANGED <<now, whisperAvailable, lastWrite, idle, listening>>

\* parseCommand(command), called on its own on a lower-case utterance
ParseCommand(command) ==
    /\ last' = [op |-> "parseCommand", command |-> command,
                result |-> IF command \in DOMAIN ParseMemo /\ toLowerCase(command) = command
                           THEN ParseMemo[command]
                           ELSE parseCommand(command)]
    /\ emitted' = << >>
    /\ UNCHANGED <<devices, persisted, activeTimers, tasks, now, commandHistory,
                   voiceResponseEnabled, useWhisperBackend, storedBackend,
                   whisperAvailable, handled, lastWrite, idle, listening>>

\* normalizeRoom(roomName), called on its own
NormalizeRoom(name) ==
    /\ last' = [op |-> "normalizeRoom", name |-> name, result |-> normalizeRoom(name)]
    /\ emitted' = << >>
    /\ UNCHANGED <<devices, persisted, activeTimers, tasks, now, commandHistory,
                   voiceResponseEnabled, useWhisperBackend, storedBackend,
                   whisperAvailable, handled, lastWrite, idle, listening>>

\* resetDevices: the stored snapshot is removed and the defaults are loaded
resetDevices(st) ==
    LET removed == [st EXCEPT !.persisted = NoSnapshot]
    IN  [removed EXCEPT !.devices = loadDeviceStates(removed.persisted)]

ResetDevices ==
    /\ handled < MaxCommands
    /\ Becomes(resetDevices(Cur))
    /\ handled' = handled + 1
    /\ last' = [op |-> "resetDevices", by |-> handled + 1]
    /\ lastWrite' = [r \in DOMAIN lastWrite |->
                        [d \in DOMAIN lastWrite[r] |-> [by |-> handled + 1, at |-> now]]]
    /\ UNCHANGED <<now, whisperAvailable, idle, listening>>

-----------------------------------------------------------------------------
(* Deferred callbacks                                                      *)

\* the k-th pending callback is due, and no callback that was registered
\* before it with a delay no longer than its own is still waiting to run
CanFire(k) ==
    /\ k \in 1..Len(tasks)
    /\ tasks[k].due <= now
    /\ \A j \in 1..(k - 1) : ~(tasks[j].due <= now /\ tasks[j].delay <= tasks[k].delay)

Without(seq, k) == SubSeq(seq, 1, k - 1) \o SubSeq(seq, k + 1, Len(seq))

Fired(k) == [Cur EXCEPT !.tasks = Without(tasks, k)]

\* the callback `task` has written room.device
Wrote(task, room, device) ==
    lastWrite' = [lastWrite EXCEPT ![room][device] = [by |-> task.by, at |-> now]]

\* faulty variant: the response callback confirms without writing the store
deviceResponse_ConfirmsOnly(st, command, r) ==
    LET successMessage == formatSuccessMessage(command)
    IN  emit(saveDeviceStates(st),
             <<Debug(Stamp \o <<"\\u2713", " ">> \o successMessage, "success")>>
             \o speak(successResponse(r, successMessage), st.voiceResponseEnabled))

\* the device-response callback of executeCommand
deviceResponse(st, command, r) ==
    LET set == [st EXCEPT !.devices = assign(@, command.room, command.device, command.value)]
        successMessage == formatSuccessMessage(command)
    IN  emit(saveDeviceStates(set),
             <<Debug(Stamp \o <<"\\u2713", " ">> \o successMessage, "success")>>
             \o speak(successResponse(r, successMessage), st.voiceResponseEnabled))

DeviceResponse(k) ==
    /\ CanFire(k)
    /\ tasks[k].kind = "device"
    /\ \E r \in RandomTenths : Becomes(deviceResponse(Fired(k), tasks[k].command, r))
    /\ last' = [op |-> "fire", task |-> tasks[k], ran |-> TRUE]
    /\ Wrote(tasks[k], tasks[k].command.room, tasks[k].command.device)
    /\ UNCHANGED <<now, whisperAvailable, handled, idle, listening>>

\* the callback of one scene step
sceneStep(st, step) ==
    [st EXCEPT !.devices = assign(@, step.room, step.device, step.value)]

SceneStep(k) ==
    /\ CanFire(k)
    /\ tasks[k].kind = "sceneStep"
    /\ LET step == scenes[tasks[k].command.scene][tasks[k].command.index + 1]
       IN  /\ Becomes(sceneStep(Fired(k), step))
           /\ Wrote(tasks[k], step.room, step.device)
    /\ last' = [op |-> "fire", task |-> tasks[k], ran |-> TRUE]
    /\ UNCHANGED <<now, whisperAvailable, handled, idle, listening>>

\* the confirmation callback of executeScene
sceneDone(st, sceneName, r) ==
    emit(st, speak(successResponse(r, Chars(sceneName) \o <<" ","m","o","d","e"," ","a","c","t","i","v","a","t","e","d",".">>),
                   st.voiceResponseEnabled))

SceneDone(k) ==
    /\ CanFire(k)
    /\ tasks[k].kind = "sceneDone"
    /\ \E r \in RandomTenths : Becomes(sceneDone(Fired(k), tasks[k].command.scene, r))
    /\ last' = [op |-> "fire", task |-> tasks[k], ran |-> TRUE]
    /\ UNCHANGED <<now, whisperAvailable, handled, lastWrite, idle, listening>>

\* the callback of setTimer: acts only if its id is still registered
timerFire(st, t) ==
    IF t.timerId \notin DOMAIN st.activeTimers THEN st
    ELSE
      LET set == [st EXCEPT !.devices =
                     assign(@, t.room, t.device,
                            IF t.action = "turn off" THEN 0 ELSE "stopped")]
          said == emit(saveDeviceStates(set),
                       <<Debug(<<"T","i","m","e","r"," ","e","x","e","c","u","t","e","d",":"," ">> \o Chars(t.action) \o <<" ">>
                               \o roomName(t.room) \o <<" ">> \o Chars(t.device), "success")>>
                       \o speak(<<"T","i","m","e","r"," ","c","o","m","p","l","e","t","e","d","."," ","I","'","v","e"," ","t","u","r","n","e","d"," ","o","f","f"," ","t","h","e"," ">> \o roomName(t.room)
                                \o <<" ">> \o Chars(t.device) \o <<".">>, st.voiceResponseEnabled))
      IN  [said EXCEPT !.activeTimers =
              [id \in (DOMAIN @) \ {t.timerId} |-> @[id]]]

TimerFire(k) ==
    /\ CanFire(k)
    /\ tasks[k].kind = "timer"
    /\ Becomes(timerFire(Fired(k), tasks[k].command))
    /\ last' = [op |-> "fire", task |-> tasks[k],
                ran |-> tasks[k].command.timerId \in DOMAIN activeTimers]
    /\ IF tasks[k].command.timerId \in DOMAIN activeTimers
       THEN Wrote(tasks[k], tasks[k].command.room, tasks[k].command.device)
       ELSE UNCHANGED lastWrite
    /\ UNCHANGED <<now, whisperAvailable, handled, idle, listening>>

\* the callback of showHelp: the help text goes to the debug panel
HelpText(k) ==
    /\ CanFire(k)
    /\ tasks[k].kind = "help"
    /\ Becomes(emit(Fired(k), <<Debug(<<"H","e","r","e"," ","a","r","e"," ","t","h","e"," ","c","o","m","m","a","n","d","s"," ","I"," ","u","n","d","e","r","s","t","a","n","d",":">>, "success")>>))
    /\ last' = [op |-> "fire", task |-> tasks[k], ran |-> TRUE]
    /\ UNCHANGED <<now, whisperAvailable, handled, lastWrite, idle, listening>>

-----------------------------------------------------------------------------
(* Time                                                                    *)

Dues == {tasks[k].due : k \in 1..Len(tasks)}

\* the clock reaches the next moment at which a callback is due
Tick ==
    /\ tasks # << >>
    /\ Min(Dues) > now
    /\ now' = Min(Dues)
    /\ last' = [op |-> "tick"]
    /\ emitted' = << >>
    /\ UNCHANGED <<devices, persisted, activeTimers, tasks, commandHistory,
                   voiceResponseEnabled, useWhisperBackend, storedBackend,
                   whisperAvailable, handled, lastWrite, idle, listening>>

\* one millisecond passes with no callback due
Advance ==
    /\ idle < MaxIdle
    /\ \A d \in Dues : d > now
    /\ now' = now + 1
    /\ idle' = idle + 1
    /\ last' = [op |-> "tick"]
    /\ emitted' = << >>
    /\ UNCHANGED <<devices, persisted, activeTimers, tasks, commandHistory,
                   voiceResponseEnabled, useWhisperBackend, storedBackend,
                   whisperAvailable, handled, lastWrite, listening>>

Passing == Tick \/ Advance

Next ==
    \/ \E command \in Utterances, confidence \in Confidences :
          ProcessCommand(command, confidence)
    \/ \E call \in TestDeviceCalls : TestDevice(call[1], call[2], call[3])
    \/ ResetDevices
    \/ \E k \in 1..Len(tasks) : DeviceResponse(k)
    \/ \E k \in 1..Len(tasks) : SceneStep(k)
    \/ \E k \in 1..Len(tasks) : SceneDone(k)
    \/ \E k \in 1..Len(tasks) : TimerFire(k)
    \/ \E k \in 1..Len(tasks) : HelpText(k)
    \/ Passing

Spec == Init /\ [][Next]_vars

\* scenes, with a device command that can interleave
NextScenes ==
    \/ \E command \in SceneUtterances : ProcessCommand(command, DefaultConfidence)
    \/ ResetDevices
    \/ \E k \in 1..Len(tasks) : DeviceResponse(k)
    \/ \E k \in 1..Len(tasks) : SceneStep(k)
    \/ \E k \in 1..Len(tasks) : SceneDone(k)
    \/ Passing

SpecScenes == Init /\ [][NextScenes]_vars

\* timers in every unit form
NextTimers ==
    \/ \E command \in TimerUtterances : ProcessCommand(command, DefaultConfidence)
    \/ \E k \in 1..Len(tasks) : TimerFire(k)
    \/ Passing

SpecTimers == Init /\ [][NextTimers]_vars

\* the parser on utterances that several rules, one rule or no rule matches
NextParse == \E command \in ParseUtterances : ProcessCommand(command, DefaultConfidence)

SpecParse == Init /\ [][NextParse]_vars

\* the room normalizer on aliases, their truncations and other names
NextRooms == \E name \in RoomNames : NormalizeRoom(name)

SpecRooms == Init /\ [][NextRooms]_vars

\* utterances, card clicks, scenes and timers acting on the devices
NextDevices ==
    \/ \E command \in DeviceUtterances : ProcessCommand(command, DefaultConfidence)
    \/ \E card \in CardClicks : DeviceCardClick(card[1], card[2])
    \/ \E k \in 1..Len(tasks) : DeviceResponse(k)
    \/ \E k \in 1..Len(tasks) : SceneStep(k)
    \/ \E k \in 1..Len(tasks) : SceneDone(k)
    \/ \E k \in 1..Len(tasks) : TimerFire(k)
    \/ Tick

SpecDevices == Init /\ [][NextDevices]_vars

\* updateUI throws when Object.keys is handed null
updateUIThrows(devs) == devs = null

\* the page is loaded with any of the stored items; init() calls updateUI
InitStartup ==
    /\ \E i \in 1..Len(StartupItems) : persisted = StartupItems[i]
    /\ devices = loadDeviceStates(persisted)
    /\ activeTimers = << >>
    /\ tasks = << >>
    /\ now = 0
    /\ commandHistory = << >>
    /\ voiceResponseEnabled = TRUE
    /\ useWhisperBackend = FALSE
    /\ storedBackend = Absent
    /\ whisperAvailable = FALSE
    /\ emitted = << >>
    /\ last = [op |-> "init", threw |-> updateUIThrows(devices)]
    /\ handled = 0
    /\ lastWrite = [r \in DOMAIN defaultStates |->
                      [d \in DOMAIN defaultStates[r] |-> [by |-> 0, at |-> 0]]]
    /\ idle = 0
    /\ NotListening

\* commands for single devices after start-up; once the constructor has
\* thrown, every handler throws at its first look at this.devices, and
\* nothing more is followed
NextStartup ==
    /\ devices # null
    /\ \/ \E command \in StartupUtterances, confidence \in Confidences :
             ProcessCommand(command, confidence)
       \/ \E k \in 1..Len(tasks) : DeviceResponse(k)
       \/ ResetDevices
       \/ Tick

SpecStartup == InitStartup /\ [][NextStartup]_vars

\* loadCommandHistory: the stored history if there is one
loadCommandHistory(saved) == saved

\* the page is loaded with a history that an earlier session has stored
InitHistory ==
    /\ \E i \in 1..Len(StoredSnapshots) : persisted = StoredSnapshots[i]
    /\ devices = loadDeviceStates(persisted)
    /\ activeTimers = << >>
    /\ tasks = << >>
    /\ now = 0
    /\ \E n \in HistoryLengths : commandHistory = loadCommandHistory(StoredHistory(n))
    /\ voiceResponseEnabled = TRUE
    /\ useWhisperBackend = FALSE
    /\ storedBackend = Absent
    /\ whisperAvailable = FALSE
    /\ emitted = << >>
    /\ last = [op |-> "init"]
    /\ handled = 0
    /\ lastWrite = [r \in DOMAIN devices |-> [d \in DOMAIN devices[r] |-> [by |-> 0, at |-> 0]]]
    /\ idle = 0
    /\ NotListening

NextHistory ==
    \/ \E command \in HistoryUtterances, confidence \in Confidences :
          ProcessCommand(command, confidence)
    \/ \E k \in 1..Len(tasks) : DeviceResponse(k)
    \/ Passing

SpecHistory == InitHistory /\ [][NextHistory]_vars

\* the two transcription backends and what they report as confidence
NextConfidence ==
    \/ \E outcome \in HealthOutcomes : CheckWhisperAvailability(outcome)
    \/ \E transcript \in Transcripts,
          confidence \in {Missing} \cup {Number(c) : c \in ReportedPercents} :
          RecognitionResult(transcript, confidence)
    \/ \E text \in Transcripts,
          confidence \in {Missing, JsonNull} \cup {Number(c) : c \in ReportedPercents} :
          WhisperResult(text, confidence)
    \/ \E k \in 1..Len(tasks) : DeviceResponse(k)
    \/ Tick

SpecConfidence == Init /\ [][NextConfidence]_vars

\* executeScene called with defined and with unknown names
NextSceneCalls ==
    \/ \E sceneName \in SceneCalls : ExecuteScene(sceneName)
    \/ \E command \in SceneCallUtterances : ProcessCommand(command, DefaultConfidence)
    \/ \E k \in 1..Len(tasks) : SceneStep(k)
    \/ \E k \in 1..Len(tasks) : SceneDone(k)
    \/ Tick

SpecSceneCalls == Init /\ [][NextSceneCalls]_vars

\* some pending callback runs
Fire ==
    \E k \in 1..Len(tasks) :
        DeviceResponse(k) \/ SceneStep(k) \/ SceneDone(k) \/ TimerFire(k)

NextLive ==
    \/ \E command \in LiveUtterances, confidence \in Confidences :
          ProcessCommand(command, confidence)
    \/ Fire
    \/ Tick

\* the event loop: time passes while callbacks are pending, and a callback whose
\* time has come runs
SpecLive == Init /\ [][NextLive]_vars /\ WF_vars(Tick) /\ WF_vars(Fire)

\* the parser on every utterance of the dim grammar, once after the page is loaded
NextDim == \E command \in DimUtterances : last.op = "init" /\ ParseCommand(command)

SpecDim == Init /\ [][NextDim]_vars

\* the parser on every utterance of the lights on/off grammar
NextLights == \E command \in LightsUtterances : last.op = "init" /\ ParseCommand(command)

SpecLights == Init /\ [][NextLights]_vars

\* the parser on the scene phrasings
NextScenePhrases ==
    \E command \in ScenePhraseUtterances : last.op = "init" /\ ParseCommand(command)

SpecScenePhrases == Init /\ [][NextScenePhrases]_vars

\* the parser called on its own between the handlers and callbacks
NextPure ==
    \/ \E command \in PureUtterances : ParseCommand(command)
    \/ \E command \in PureUtterances : ProcessCommand(command, DefaultConfidence)
    \/ Fire
    \/ Tick

SpecPure == Init /\ [][NextPure]_vars

\* one timer utterance of the grammar, processed after the page is loaded
NextTimerRooms ==
    \E command \in TimerRoomUtterances :
        last.op = "init" /\ ProcessCommand(command, DefaultConfidence)

SpecTimerRooms == Init /\ [][NextTimerRooms]_vars

\* the voice settings among commands whose callbacks speak
NextVoice ==
    \/ \E command \in VoiceUtterances, confidence \in Confidences :
          ProcessCommand(command, confidence)
    \/ Fire
    \/ Tick

SpecVoice == Init /\ [][NextVoice]_vars

\* utterances of every outcome, recorded into a stored history
NextRecorded ==
    \/ \E command \in RecordedUtterances, confidence \in Confidences :
          ProcessCommand(command, confidence)
    \/ Fire
    \/ Tick

SpecRecorded == InitHistory /\ [][NextRecorded]_vars

\* device commands and their responses, each after its own random delay
NextOrder ==
    \/ \E command \in OrderUtterances : ProcessCommand(command, DefaultConfidence)
    \/ \E k \in 1..Len(tasks) : DeviceResponse(k)
    \/ Passing

SpecOrder == Init /\ [][NextOrder]_vars

\* help and settings among device commands and timers
NextSettings ==
    \/ \E outcome \in HealthOutcomes : CheckWhisperAvailability(outcome)
    \/ \E command \in SettingsUtterances : ProcessCommand(command, DefaultConfidence)
    \/ \E k \in 1..Len(tasks) : HelpText(k)
    \/ Fire
    \/ Tick

SpecSettings == Init /\ [][NextSettings]_vars

-----------------------------------------------------------------------------
(* The microphone: startListening, stopListening and the recognisers       *)

\* showError(message)
showError(message) == <<Debug(Stamp \o <<"E","r","r","o","r",":"," ">> \o message, "error")>>

\* what the microphone handlers leave alone
besideMicrophone ==
    <<devices, persisted, activeTimers, tasks, now, commandHistory, voiceResponseEnabled,
      storedBackend, whisperAvailable, handled, lastWrite, idle>>

\* startWebSpeechRecognition: recognition.start() throws an InvalidStateError,
\* which is caught, unless the recogniser is idle
StartWebSpeechRecognition ==
    /\ recognition' = IF recognition = "idle" THEN "starting" ELSE recognition
    /\ emitted' = IF recognition = "idle" THEN << >>
                  ELSE showError(<<"C","o","u","l","d"," ","n","o","t"," ","s","t","a","r","t"," ","s","p","e","e","c","h"," ","r","e","c","o","g","n","i","t","i","o","n">>)
    /\ UNCHANGED <<isListening, mediaRecorder, transcribing>>

\* startWhisperRecording, taken as one step: the recorder starts, or
\* getUserMedia or the MediaRecorder constructor throws and the Web Speech
\* API is fallen back to
StartWhisperRecording ==
    \/ /\ transcribing < MaxTranscribing
       /\ mediaRecorder' = "recording"
       /\ isListening' = TRUE
       /\ emitted' = << >>
       /\ UNCHANGED <<recognition, transcribing, useWhisperBackend>>
    \/ /\ useWhisperBackend' = FALSE
       /\ recognition' = IF recognition = "idle" THEN "starting" ELSE recognition
       /\ emitted' = showError(<<"C","o","u","l","d"," ","n","o","t"," ","s","t","a","r","t"," ","W","h","i","s","p","e","r"," ","r","e","c","o","r","d","i","n","g">>)
                     \o (IF recognition = "idle" THEN << >>
                         ELSE showError(<<"C","o","u","l","d"," ","n","o","t"," ","s","t","a","r","t"," ","s","p","e","e","c","h"," ","r","e","c","o","g","n","i","t","i","o","n">>))
       /\ UNCHANGED <<isListening, mediaRecorder, transcribing>>

\* the microphone is toggled (button, Ctrl+M, space bar) while not listening
StartListening ==
    /\ ~isListening
    /\ IF useWhisperBackend /\ whisperAvailable
       THEN StartWhisperRecording
       ELSE StartWebSpeechRecognition /\ UNCHANGED useWhisperBackend
    /\ last' = [op |-> "startListening"]
    /\ UNCHANGED besideMicrophone

\* recognition.onstart
OnStart ==
    /\ recognition = "starting"
    /\ recognition' = "running"
    /\ isListening' = TRUE
    /\ emitted' = << >>
    /\ last' = [op |-> "onstart"]
    /\ UNCHANGED <<besideMicrophone, useWhisperBackend, mediaRecorder, transcribing>>

\* stopWhisperRecording: a recorder that is recording is stopped, and its
\* onstop hands the recording to processWhisperAudio
stopWhisperRecording ==
    IF mediaRecorder = "recording"
    THEN /\ mediaRecorder' = "inactive"
         /\ isListening' = FALSE
         /\ transcribing' = transcribing + 1
    ELSE UNCHANGED <<mediaRecorder, isListening, transcribing>>

\* the microphone is toggled while listening
StopListening ==
    /\ isListening
    /\ IF useWhisperBackend /\ mediaRecorder # "null"
       THEN stopWhisperRecording /\ UNCHANGED recognition
       ELSE /\ recognition' = IF recognition \in {"starting", "running"} THEN "stopping"
                              ELSE recognition
            /\ UNCHANGED <<mediaRecorder, isListening, transcribing>>
    /\ emitted' = << >>
    /\ last' = [op |-> "stopListening"]
    /\ UNCHANGED <<besideMicrophone, useWhisperBackend>>

\* recognition.onend, which follows recognition.stop() and every error
OnEnd ==
    /\ recognition = "stopping"
    /\ recognition' = "idle"
    /\ isListening' = FALSE
    /\ emitted' = << >>
    /\ last' = [op |-> "onend"]
    /\ UNCHANGED <<besideMicrophone, useWhisperBackend, mediaRecorder, transcribing>>

\* recognition.onerror: the recogniser gives up by itself
OnError ==
    /\ recognition \in {"starting", "running"}
    /\ recognition' = "stopping"
    /\ isListening' = FALSE
    /\ emitted' = showError(<<"S","p","e","e","c","h"," ","r","e","c","o","g","n","i","t","i","o","n"," ","e","r","r","o","r",":"," ","n","o","-","s","p","e","e","c","h">>)
    /\ last' = [op |-> "onerror"]
    /\ UNCHANGED <<besideMicrophone, useWhisperBackend, mediaRecorder, transcribing>>

\* recognition.onresult while the recogniser runs, or as it stops
OnResult(command) ==
    /\ recognition \in {"running", "stopping"}
    /\ Delivered(command, DefaultConfidence)
    /\ UNCHANGED listening

\* the Whisper server answers a recording: with a transcript, or with
\* 'no_speech_detected'
Transcribed ==
    /\ transcribing > 0
    /\ transcribing' = transcribing - 1
    /\ UNCHANGED <<isListening, mediaRecorder, recognition>>
    /\ \/ \E command \in ListeningUtterances : Delivered(command, DefaultConfidence)
       \/ /\ emitted' = <<Debug(<<"N","o"," ","s","p","e","e","c","h"," ","d","e","t","e","c","t","e","d">>, "error")>>
          /\ last' = [op |-> "nothingHeard", by |-> handled]
          /\ UNCHANGED <<besideMicrophone, useWhisperBackend>>

\* the page is loaded; the backend is the one an earlier session has stored
InitListening ==
    /\ \E i \in 1..Len(StoredSnapshots) : persisted = StoredSnapshots[i]
    /\ devices = loadDeviceStates(persisted)
    /\ activeTimers = << >>
    /\ tasks = << >>
    /\ now = 0
    /\ commandHistory = << >>
    /\ voiceResponseEnabled = TRUE
    /\ storedBackend \in {Absent, "true", "false"}
    /\ useWhisperBackend = (storedBackend = "true")
    /\ whisperAvailable = FALSE
    /\ emitted = << >>
    /\ last = [op |-> "init"]
    /\ handled = 0
    /\ lastWrite = [r \in DOMAIN devices |-> [d \in DOMAIN devices[r] |-> [by |-> 0, at |-> 0]]]
    /\ idle = 0
    /\ NotListening

NextListening ==
    \/ \E outcome \in HealthOutcomes : CheckWhisperAvailability(outcome)
    \/ StartListening
    \/ OnStart
    \/ StopListening
    \/ OnEnd
    \/ OnError
    \/ \E command \in ListeningUtterances : OnResult(command)
    \/ Transcribed

\* the browser delivers the end event of a recogniser that was told to stop
SpecListening == InitListening /\ [][NextListening]_vars /\ WF_vars(OnEnd)

-----------------------------------------------------------------------------
(* Properties                                                              *)

\* some feedback entry of the given tag contains the text
Emitted(entries, tag, text) ==
    \E i \in 1..Len(entries) : entries[i].tag = tag /\ includes(entries[i].text, text)

\* the input handled last passed the confidence check
Accepted(l) ==
    \/ l.op = "testDevice"
    \/ l.op = "processCommand" /\ ~(l.confidence < 70 /\ l.confidence < 100)

FiredTask(kind) == last.op = "fire" /\ last.task.kind = kind

TurnOnLivingRoomLights == DeviceIntent("lights", "living-room", "on", 100)

\* C1: "turn on living room lights" heard with confidence 1.0 is parsed to
\* {device: lights, room: living-room, action: on, value: 100} and its response
\* callback is scheduled 200..700 ms ahead; no pending callback is ever overdue;
\* and when that callback has run, living-room.lights is 100 and the
\* confirmation (debug panel, and speech while enabled) contains
\* "living room lights turned on".
C1_TurnOnLivingRoomLights ==
    /\ \A k \in 1..Len(tasks) : tasks[k].due >= now
    /\ (/\ last.op = "processCommand"
        /\ last.command = <<"t","u","r","n"," ","o","n"," ","l","i","v","i","n","g"," ","r","o","o","m"," ","l","i","g","h","t","s">>
        /\ last.confidence = 100)
        => /\ last.parsed = TurnOnLivingRoomLights
           /\ tasks # << >>
           /\ tasks[Len(tasks)].kind = "device"
           /\ tasks[Len(tasks)].command = TurnOnLivingRoomLights
           /\ tasks[Len(tasks)].by = last.by
           /\ tasks[Len(tasks)].due \in (now + 200)..(now + 700)
    /\ (FiredTask("device") /\ last.task.command = TurnOnLivingRoomLights)
        => /\ devices["living-room"].lights = 100
           /\ now = last.task.due
           /\ Emitted(emitted, "success", <<"l","i","v","i","n","g"," ","r","o","o","m"," ","l","i","g","h","t","s"," ","t","u","r","n","e","d"," ","o","n">>)
           /\ voiceResponseEnabled
                => Emitted(emitted, "spoken", <<"l","i","v","i","n","g"," ","r","o","o","m"," ","l","i","g","h","t","s"," ","t","u","r","n","e","d"," ","o","n">>)

\* C1 witness: the response callback of that command has run on a store whose
\* living-room lights were off when the page loaded
C1_Witness ==
    /\ FiredTask("device")
    /\ last.task.command = TurnOnLivingRoomLights
    /\ Len(commandHistory) = 1
    /\ commandHistory[1].command = <<"t","u","r","n"," ","o","n"," ","l","i","v","i","n","g"," ","r","o","o","m"," ","l","i","g","h","t","s">>
    /\ devices["living-room"].lights = 100
    /\ devices["bedroom"].lights = 0

\* C2: an utterance whose confidence is below 0.7 (and below 1) is rejected:
\* the store, its snapshot, the pending callbacks, the timer registry, the
\* settings flags and the history are unchanged, and a "repeat" feedback is emitted.
C2_LowConfidenceRejected ==
    [][(last'.op = "processCommand" /\ last'.confidence < 70 /\ last'.confidence < 100)
        => /\ UNCHANGED <<devices, persisted, tasks, activeTimers, commandHistory,
                          voiceResponseEnabled, useWhisperBackend, storedBackend>>
           /\ Emitted(emitted', "error", <<"p","l","e","a","s","e"," ","r","e","p","e","a","t">>)
           /\ voiceResponseEnabled => Emitted(emitted', "spoken", <<"p","l","e","a","s","e"," ","r","e","p","e","a","t">>)]_vars

\* C2 witness: a command that would have been recognised was rejected at 69 %
C2_Witness ==
    /\ last.op = "processCommand"
    /\ last.confidence = 69
    /\ last.parsed.type # "null"
    /\ Emitted(emitted, "error", <<"p","l","e","a","s","e"," ","r","e","p","e","a","t">>)
    /\ commandHistory = << >>
    /\ tasks = << >>

\* C3 (as claimed): after every callback that mutated the store, the
\* persisted snapshot equals the store.
C3_PersistedAfterEveryMutation ==
    (last.op = "fire" /\ last.task.kind \in {"device", "sceneStep", "timer"} /\ last.ran)
        => persisted = Snapshot(devices)

\* the command is a device command whose room or device the store lacks
NotFound(command) ==
    /\ command.type = Undefined
    /\ \/ command.room \notin DOMAIN devices
       \/ command.device \notin DOMAIN devices[command.room]

\* C4: a device command for a room the store lacks, or for a device its room
\* lacks, emits an error feedback, schedules nothing and leaves the store and
\* its snapshot unchanged; the handler completes, so the next input is handled.
C4_NotFoundIsHarmless ==
    [][(Accepted(last') /\ NotFound(last'.parsed))
        => /\ Emitted(emitted', "error", <<"n","o","t"," ","f","o","u","n","d">>)
           /\ handled' = handled + 1
           /\ UNCHANGED <<devices, persisted, tasks, activeTimers>>]_vars

\* C4 witness: "play music in kitchen" was answered with DeviceNotFound (and
\* recorded in the history), nothing being scheduled
C4_Witness ==
    /\ last.op = "processCommand"
    /\ Accepted(last)
    /\ last.parsed = DeviceIntent("music", "kitchen", "play", "playing")
    /\ Emitted(emitted, "error", <<"D","e","v","i","c","e"," ","m","u","s","i","c"," ","n","o","t"," ","f","o","u","n","d"," ","i","n"," ","k","i","t","c","h","e","n">>)
    /\ commandHistory[1].success
    /\ Len(commandHistory) = 1
    /\ tasks = << >>

\* the last step of a goodnight run has just been applied
GoodnightStepsDone ==
    /\ FiredTask("sceneStep")
    /\ last.task.command.scene = "goodnight"
    /\ last.task.command.index + 1 = Len(scenes["goodnight"])

\* C5 (as claimed): once the step delays of goodnight have elapsed, all
\* lights are 0 and the kitchen security is armed.
C5_GoodnightAllOff ==
    GoodnightStepsDone
        => /\ devices["living-room"].lights = 0
           /\ devices["bedroom"].lights = 0
           /\ devices["kitchen"].lights = 0
           /\ devices["kitchen"].security = "armed"

\* what goodnight is to set, with the delay of the step that sets it
GoodnightTargets ==
    << <<"living-room", "lights", 0, 0>>, <<"bedroom", "lights", 0, 500>>,
       <<"kitchen", "lights", 0, 1000>>, <<"kitchen", "security", "armed", 1500>> >>

\* C5 (amended): once the step delays of goodnight have elapsed, each of the
\* three lights is 0 and the kitchen security is armed, unless a callback of
\* another command has written that device at or after the time of the
\* goodnight step that sets it.
C5_GoodnightUnlessOverwritten ==
    GoodnightStepsDone
        => \A k \in 1..Len(GoodnightTargets) :
              LET target == GoodnightTargets[k]
                  writer == lastWrite[target[1]][target[2]]
                  started == last.task.due - last.task.delay
              IN  \/ /\ writer.by = last.task.by
                     /\ devices[target[1]][target[2]] = target[3]
                  \/ /\ writer.by \notin {0, last.task.by}
                     /\ writer.at >= started + target[4]

\* C5 witness: goodnight ran to its last step on a store loaded with the
\* lights on, nothing else writing: all lights are 0, security is armed
C5_Witness ==
    /\ GoodnightStepsDone
    /\ devices["living-room"].music = "playing"
    /\ \A k \in 1..Len(GoodnightTargets) :
          /\ lastWrite[GoodnightTargets[k][1]][GoodnightTargets[k][2]].by = last.task.by
          /\ devices[GoodnightTargets[k][1]][GoodnightTargets[k][2]] = GoodnightTargets[k][3]

\* the pending callbacks of kind `kind` that the input `by` scheduled
Pending(kind, by) == {j \in 1..Len(tasks) : tasks[j].kind = kind /\ tasks[j].by = by}

\* C6: the steps of a scene run in declared order, step k being due 500 ms x k
\* after the scene started: while a step is pending so are all later steps of
\* its run and the confirmation, each 500 ms after the one before; a step that
\* has run has set its device and no earlier step of its run is pending; and
\* the confirmation is emitted when no step of its run is pending.
C6_StepsInDeclaredOrder ==
    /\ \A j \in 1..Len(tasks) :
          tasks[j].kind = "sceneStep"
            => LET t == tasks[j]
                   n == Len(scenes[t.command.scene])
               IN  /\ t.delay = 500 * t.command.index
                   /\ \A i \in (t.command.index + 1)..(n - 1) :
                         \E j2 \in Pending("sceneStep", t.by) :
                            /\ tasks[j2].command.index = i
                            /\ tasks[j2].due = t.due + 500 * (i - t.command.index)
                   /\ \E j3 \in Pending("sceneDone", t.by) :
                         tasks[j3].due = t.due + 500 * (n - t.command.index)
    /\ FiredTask("sceneStep")
          => LET step == scenes[last.task.command.scene][last.task.command.index + 1]
             IN  /\ devices[step.room][step.device] = step.value
                 /\ now = last.task.due
                 /\ \A j \in Pending("sceneStep", last.task.by) :
                       tasks[j].command.index > last.task.command.index
    /\ FiredTask("sceneDone")
          => /\ Pending("sceneStep", last.task.by) = {}
             /\ now = last.task.due
             /\ voiceResponseEnabled => Emitted(emitted, "spoken", <<" ","m","o","d","e"," ","a","c","t","i","v","a","t","e","d",".">>)

\* C6 witness: the party scene (four steps) has emitted its confirmation,
\* its last step having set the living-room music
C6_Witness ==
    /\ FiredTask("sceneDone")
    /\ last.task.command.scene = "party"
    /\ Emitted(emitted, "spoken", <<"p","a","r","t","y"," ","m","o","d","e"," ","a","c","t","i","v","a","t","e","d",".">>)
    /\ lastWrite["living-room"]["music"].by = last.task.by
    /\ lastWrite["kitchen"]["lights"].by = last.task.by

MinuteUnits == {<<"m","i","n","u","t","e">>, <<"m","i","n","u","t","e","s">>, <<"m","i","n">>, <<"m","i","n","s">>}

HourUnits == {<<"h","o","u","r">>, <<"h","o","u","r","s">>, <<"h","r">>, <<"h","r","s">>}

\* C7 (as claimed): a lights timer of N minutes fires N x 60,000 ms after it
\* was scheduled and then sets the room's lights to 0, persists the store,
\* emits a confirmation and deregisters itself.
C7_MinuteTimerFires ==
    (/\ FiredTask("timer")
     /\ last.task.command.device = "lights"
     /\ last.task.command.unit \in MinuteUnits)
        => /\ last.task.delay = last.task.command.duration * 60000
           /\ now = last.task.due
           /\ last.ran
           /\ devices[last.task.command.room].lights = 0
           /\ persisted = Snapshot(devices)
           /\ Emitted(emitted, "success", <<"T","i","m","e","r"," ","e","x","e","c","u","t","e","d">>)
           /\ last.task.command.timerId \notin DOMAIN activeTimers

\* C8 (as claimed): a timer that fires earlier does not keep a later one on
\* the same room and device from firing: the fire action of every scheduled
\* timer executes.
C8_EveryTimerFires == FiredTask("timer") => last.ran

\* C9 (as claimed): setTimer registers the timer under an id no registered
\* timer has: the registry gains exactly one entry and keeps the others.
C9_FreshTimerId ==
    [][(last'.op = "processCommand" /\ Accepted(last') /\ last'.parsed.type = "timer")
        => /\ Cardinality(DOMAIN activeTimers') = Cardinality(DOMAIN activeTimers) + 1
           /\ \A id \in DOMAIN activeTimers :
                 id \in DOMAIN activeTimers' /\ activeTimers'[id] = activeTimers[id]]_vars

\* C10 (as claimed): every unit form of the timer grammar is classified as
\* minute or hour, and the delay is duration x 60,000 ms for the minute forms
\* and duration x 3,600,000 ms for the hour forms.
C10_UnitDecidesDelay ==
    (last.op = "processCommand" /\ Accepted(last) /\ last.parsed.type = "timer")
        => LET t == tasks[Len(tasks)]
               unit == last.parsed.unit
           IN  /\ unit \in MinuteUnits \cup HourUnits
               /\ unit \in MinuteUnits
                    => /\ t.delay = last.parsed.duration * 60000
                       /\ activeTimers[t.command.timerId].unit = "minute"
               /\ unit \in HourUnits
                    => /\ t.delay = last.parsed.duration * 3600000
                       /\ activeTimers[t.command.timerId].unit = "hour"

\* C11 (as claimed): a timer utterance in the "stop" phrasing for music
\* schedules a timer on the music of the room it names, and when that timer
\* fires the room's music is stopped (a lights timer sets the lights to 0).
C11_StopMusicTimer ==
    /\ (/\ last.op = "processCommand"
        /\ Accepted(last)
        /\ toLowerCase(last.command) = <<"s","t","o","p"," ","m","u","s","i","c"," ","i","n"," ","l","i","v","i","n","g"," ","r","o","o","m"," ","i","n"," ","1"," ","h","o","u","r">>)
        => /\ last.parsed.type = "timer"
           /\ last.parsed.device = "music"
           /\ last.parsed.room = "living-room"
           /\ tasks[Len(tasks)].command.device = "music"
    /\ (/\ last.op = "processCommand"
        /\ Accepted(last)
        /\ toLowerCase(last.command) = <<"s","t","o","p"," ","m","u","s","i","c"," ","i","n"," ","b","e","d","r","o","o","m"," ","i","n"," ","1"," ","m","i","n","u","t","e">>)
        => /\ last.parsed.type = "timer"
           /\ last.parsed.device = "music"
           /\ last.parsed.room = "bedroom"
    /\ (FiredTask("timer") /\ last.ran)
        => /\ last.task.command.device = "music"
                => devices[last.task.command.room].music = "stopped"
           /\ last.task.command.device = "lights"
                => devices[last.task.command.room].lights = 0
    /\ (/\ FiredTask("timer")
        /\ last.ran
        /\ Len(commandHistory) = 1
        /\ toLowerCase(commandHistory[1].command) = <<"s","t","o","p"," ","m","u","s","i","c"," ","i","n"," ","l","i","v","i","n","g"," ","r","o","o","m"," ","i","n"," ","1"," ","h","o","u","r">>)
        => devices["living-room"].music = "stopped"

\* which rules of parseCommand match the lower-case command, in declared
\* order: help, the four scenes, the timer, the four settings, the ten patterns
RuleApplies(command) ==
    << \/ includes(command, <<"h","e","l","p">>) \/ includes(command, <<"w","h","a","t"," ","c","a","n"," ","y","o","u"," ","d","o">>)
       \/ includes(command, <<"c","o","m","m","a","n","d","s">>),
       includes(command, <<"m","o","v","i","e"," ","m","o","d","e">>) \/ includes(command, <<"c","i","n","e","m","a"," ","m","o","d","e">>),
       includes(command, <<"g","o","o","d","n","i","g","h","t">>) \/ includes(command, <<"g","o","o","d"," ","n","i","g","h","t">>),
       includes(command, <<"w","a","k","e"," ","u","p">>) \/ includes(command, <<"m","o","r","n","i","n","g"," ","m","o","d","e">>),
       includes(command, <<"p","a","r","t","y"," ","m","o","d","e">>) \/ includes(command, <<"p","a","r","t","y"," ","t","i","m","e">>),
       match(command, timerPattern).found,
       includes(command, <<"t","u","r","n"," ","o","f","f"," ","v","o","i","c","e">>) \/ includes(command, <<"d","i","s","a","b","l","e"," ","v","o","i","c","e">>),
       includes(command, <<"t","u","r","n"," ","o","n"," ","v","o","i","c","e">>) \/ includes(command, <<"e","n","a","b","l","e"," ","v","o","i","c","e">>),
       \/ includes(command, <<"u","s","e"," ","w","h","i","s","p","e","r">>) \/ includes(command, <<"s","w","i","t","c","h"," ","t","o"," ","w","h","i","s","p","e","r">>)
       \/ includes(command, <<"w","h","i","s","p","e","r"," ","b","a","c","k","e","n","d">>),
       \/ includes(command, <<"u","s","e"," ","w","e","b"," ","s","p","e","e","c","h">>) \/ includes(command, <<"s","w","i","t","c","h"," ","t","o"," ","w","e","b"," ","s","p","e","e","c","h">>)
       \/ includes(command, <<"b","r","o","w","s","e","r"," ","s","p","e","e","c","h">>) >>
    \o [k \in 1..Len(patterns) |-> match(command, patterns[k].pattern).found]

TimerRule == 6

KeywordRules == 10

\* what rule i returns for the command when it is the one that decides
RuleIntent(command, i) ==
    CASE i = 1 -> HelpIntent
      [] i = 2 -> SceneIntent("movie")
      [] i = 3 -> SceneIntent("goodnight")
      [] i = 4 -> SceneIntent("morning")
      [] i = 5 -> SceneIntent("party")
      [] i = TimerRule ->
            LET g == match(command, timerPattern).g
            IN  [type |-> "timer", device |-> "lights", room |-> normalizeRoom(g[2]),
                 action |-> "turn off", duration |-> parseInt(g[3]), unit |-> g[4]]
      [] i = 7 -> SettingsIntent("disable_voice")
      [] i = 8 -> SettingsIntent("enable_voice")
      [] i = 9 -> SettingsIntent("use_whisper")
      [] i = 10 -> SettingsIntent("use_webspeech")
      [] OTHER -> patternAction(patterns[i - KeywordRules].kind,
                                match(command, patterns[i - KeywordRules].pattern).g)

\* for every utterance of the parser specification: the rules that match it
\* and the intent of the first of them
RuleMemo ==
    [u \in ParseUtterances |->
        LET command == toLowerCase(u)
            applies == RuleApplies(command)
            matching == {i \in 1..Len(applies) : applies[i]}
        IN  [matching |-> matching,
             intent |-> IF matching = {} THEN Null
                        ELSE RuleIntent(command, Min(matching))]]

\* C12: parseCommand returns the intent of the first rule that matches, in the
\* order help, scenes, timer, voice settings, backend settings, device
\* patterns: an utterance containing "help" yields the help intent, and an
\* utterance the timer rule matches (no help or scene keyword in it) yields a
\* timer, never an immediate device command.
C12_FirstMatchingRuleWins ==
    last.op = "processCommand"
        => LET rule == RuleMemo[last.command]
           IN  /\ last.parsed = rule.intent
               /\ commandHistory[1].parsed = rule.intent
               /\ 1 \in rule.matching => last.parsed = HelpIntent
               /\ (TimerRule \in rule.matching /\ Min(rule.matching) = TimerRule)
                     => /\ last.parsed.type = "timer"
                        /\ tasks[Len(tasks)].kind = "timer"
                        /\ tasks[Len(tasks)].by = last.by

\* C12 witness: an utterance that the timer rule and the general lights
\* pattern both match has been parsed as a timer
C12_Witness ==
    /\ last.op = "processCommand"
    /\ toLowerCase(last.command) = <<"t","u","r","n"," ","o","f","f"," ","t","h","e"," ","l","i","g","h","t","s"," ","i","n"," ","t","h","e"," ","k","i","t","c","h","e","n"," ","i","n"," ","5"," ","m","i","n","u","t","e","s">>
    /\ {TimerRule, 13} \subseteq RuleMemo[last.command].matching
    /\ last.parsed.type = "timer"
    /\ last.parsed.room = "living-room"
    /\ tasks[Len(tasks)].kind = "timer"

\* C13 (as claimed): normalizeRoom returns one of living-room, bedroom,
\* kitchen for every room name.
C13_NormalizeRoomTotal ==
    last.op = "normalizeRoom" => last.result \in Rooms

\* the aliases (by position in roomMap) that the name is a truncation of
TruncationOf(name) == {k \in 1..Len(roomMap) : name \in Prefixes(roomMap[k][1])}

\* C14 (as claimed): for every alias and every truncation of it,
\* normalizeRoom returns the canonical room of that alias.
C14_EveryTruncationResolves ==
    last.op = "normalizeRoom"
        => \A k \in TruncationOf(last.name) : last.result = roomMap[k][2]

\* the truncation without the white space at its end
Bare(name) ==
    IF name # << >> /\ name[Len(name)] \in WhiteSpace
    THEN SubSeq(name, 1, Len(name) - 1) ELSE name

\* C14 (amended): for every alias and every non-empty truncation of it,
\* normalizeRoom returns the canonical room of the first alias of the table
\* that starts with the truncation: the alias's own canonical room unless an
\* earlier alias of another room starts with the same truncation.
C14_FirstAliasWithTruncation ==
    (last.op = "normalizeRoom" /\ last.name # << >> /\ TruncationOf(last.name) # {})
        => LET sharing == {j \in 1..Len(roomMap) :
                              Bare(last.name) \in Prefixes(roomMap[j][1])}
           IN  /\ last.result = roomMap[Min(sharing)][2]
               /\ \A k \in TruncationOf(last.name) :
                     (\A j \in sharing : j < k => roomMap[j][2] = roomMap[k][2])
                        => last.result = roomMap[k][2]

\* C14 witness: "kitc" has been resolved to kitchen and "ma", a truncation
\* of "master" that "main room" shares, is the name given
C14_Witness ==
    /\ last.op = "normalizeRoom"
    /\ last.name = <<"k","i","t","c">>
    /\ last.result = "kitchen"
    /\ TruncationOf(<<"m","a">>) = {6, 13, 14}
    /\ normalizeRoom(<<"m","a">>) = "living-room"

\* C15: for every alias of the table, in lower or upper case and with or
\* without surrounding white space, normalizeRoom returns the canonical room
\* declared for that alias.
C15_AliasResolves ==
    last.op = "normalizeRoom"
        => \A k \in 1..Len(roomMap) :
              last.name \in Dressed(roomMap[k][1]) => last.result = roomMap[k][2]

\* C15 witness: "MASTER BEDROOM" between white space has been resolved to bedroom
C15_Witness ==
    /\ last.op = "normalizeRoom"
    /\ last.name = <<"\t", " ">> \o <<"M","A","S","T","E","R"," ","B","E","D","R","O","O","M">> \o <<" ">>
    /\ last.result = "bedroom"

\* C16: whatever utterances, scenes, timers and card clicks have acted, the
\* store has the rooms it started with and every room the devices it
\* started with.
C16_DeviceSetsFixed ==
    /\ DOMAIN devices = {"living-room", "bedroom", "kitchen"}
    /\ DOMAIN devices["living-room"] = {"lights", "thermostat", "music"}
    /\ DOMAIN devices["bedroom"] = {"lights", "thermostat", "music"}
    /\ DOMAIN devices["kitchen"] = {"lights", "thermostat", "security"}
    /\ \A k \in 1..Len(tasks) :
          tasks[k].kind = "device"
            => /\ tasks[k].command.room \in DOMAIN devices
               /\ tasks[k].command.device \in DOMAIN devices[tasks[k].command.room]

\* C16 witness: a click on a kitchen music card after "play music in
\* kitchen": both were refused, the kitchen still has no music
C16_Witness ==
    /\ last.op = "cardClick"
    /\ last.parsed.room = "kitchen"
    /\ last.parsed.device = "music"
    /\ Emitted(emitted, "error", <<"D","e","v","i","c","e"," ","m","u","s","i","c"," ","n","o","t"," ","f","o","u","n","d"," ","i","n"," ","k","i","t","c","h","e","n">>)
    /\ Len(commandHistory) = 1
    /\ toLowerCase(commandHistory[1].command) = <<"p","l","a","y"," ","m","u","s","i","c"," ","i","n"," ","k","i","t","c","h","e","n">>
    /\ "music" \notin DOMAIN devices["kitchen"]

\* C17: whatever utterances, scenes, timers and card clicks have acted,
\* lights are integers in 0..100, thermostats integers, music is playing,
\* paused or stopped, and security is armed or disarmed.
C17_ValuesInDomain ==
    \A room \in DOMAIN devices : \A device \in DOMAIN devices[room] :
        CASE device = "lights" -> devices[room][device] \in 0..100
          [] device = "thermostat" -> devices[room][device] \in Int
          [] device = "music" -> devices[room][device] \in {"playing", "paused", "stopped"}
          [] device = "security" -> devices[room][device] \in {"armed", "disarmed"}
          [] OTHER -> FALSE

\* C17 witness: "dim the bedroom lights to 150 percent" has set the lights to 100
C17_Witness ==
    /\ FiredTask("device")
    /\ last.task.command.action = "dim"
    /\ Len(commandHistory) = 1
    /\ includes(commandHistory[1].command, <<"1","5","0">>)
    /\ devices["bedroom"].lights = 100
    /\ persisted = Snapshot(devices)

\* C18: when no rule of the parser matches an utterance that passed the
\* confidence check, parseCommand returns null, and processCommand emits an
\* "unrecognized" feedback and records a history entry with success = false
\* and a null intent; the store, its snapshot, the timer registry and the
\* pending callbacks are unchanged, and the handler completes.
C18_UnrecognizedIsHarmless ==
    [][(/\ last'.op = "processCommand"
        /\ Accepted(last')
        /\ RuleMemo[last'.command].matching = {})
        => /\ last'.parsed.type = "null"
           /\ Emitted(emitted', "error", <<"C","o","m","m","a","n","d"," ","n","o","t"," ","r","e","c","o","g","n","i","z","e","d">>)
           /\ voiceResponseEnabled
                => \E i \in 1..Len(unrecognizedResponses) :
                      Emitted(emitted', "spoken", unrecognizedResponses[i])
           /\ ~Emitted(emitted', "success", <<>>)
           /\ Len(commandHistory') = Len(commandHistory) + 1
           /\ commandHistory'[1].command = last'.command
           /\ commandHistory'[1].success = FALSE
           /\ commandHistory'[1].parsed.type = "null"
           /\ handled' = handled + 1
           /\ UNCHANGED <<devices, persisted, activeTimers, tasks>>]_vars

\* C18 witness: "open the pod bay doors" was not recognised, after a command
\* that was
C18_Witness ==
    /\ last.op = "processCommand"
    /\ last.command = <<"o","p","e","n"," ","t","h","e"," ","p","o","d"," ","b","a","y"," ","d","o","o","r","s">>
    /\ last.parsed.type = "null"
    /\ Len(commandHistory) = 2
    /\ ~commandHistory[1].success
    /\ commandHistory[2].success
    /\ Emitted(emitted, "error", <<"C","o","m","m","a","n","d"," ","n","o","t"," ","r","e","c","o","g","n","i","z","e","d">>)

\* C19 (as claimed): an utterance is rejected on confidence exactly when the
\* backend reported a confidence below 0.7: every reported confidence in
\* [0, 0.7), a reported 0 included, is rejected, and an utterance with no
\* reported confidence never is.
C19_RejectedIffReportedLow ==
    (last.op = "processCommand" /\ "reported" \in DOMAIN last)
        => (Emitted(emitted, "error", <<"L","o","w"," ","c","o","n","f","i","d","e","n","c","e">>)
                <=> (last.reported.kind = "number" /\ last.reported.percent < 70))

\* a stored item that holds a room -> device -> value mapping
WellFormed(saved) ==
    /\ saved.present
    /\ saved.value # Unparseable
    /\ DOMAIN saved.value = DOMAIN defaultStates
    /\ \A r \in DOMAIN defaultStates : DOMAIN saved.value[r] = DOMAIN defaultStates[r]

\* C20 (as claimed): at start-up the store is the persisted mapping when one
\* is present and well-formed, and the default device states when the
\* persisted data is absent, unparseable or malformed; no exception is raised.
C20_StartupStore ==
    last.op = "init"
        => /\ devices = IF WellFormed(persisted) THEN persisted.value ELSE defaultStates
           /\ ~last.threw

UseWhisper == SettingsIntent("use_whisper")

\* C21: an accepted use_whisper command switches to the Whisper backend, and
\* stores the switch, only when the health check has confirmed the backend
\* (whisperAvailable); otherwise the backend flag and its stored copy keep
\* their values and a failure feedback is emitted. No step turns the flag on
\* while the backend is unconfirmed.
C21_WhisperOnlyWhenAvailable ==
    [][/\ (/\ last'.op = "processCommand"
           /\ Accepted(last')
           /\ last'.parsed = UseWhisper)
          => IF whisperAvailable
             THEN /\ useWhisperBackend'
                  /\ storedBackend' = "true"
                  /\ Emitted(emitted', "success", <<"S","w","i","t","c","h","e","d"," ","t","o"," ","W","h","i","s","p","e","r"," ","b","a","c","k","e","n","d">>)
             ELSE /\ UNCHANGED <<useWhisperBackend, storedBackend>>
                  /\ Emitted(emitted', "error", <<"W","h","i","s","p","e","r"," ","b","a","c","k","e","n","d"," ","n","o","t"," ","a","v","a","i","l","a","b","l","e">>)
                  /\ ~Emitted(emitted', "success", <<>>)
       /\ (useWhisperBackend' /\ ~useWhisperBackend) => whisperAvailable]_vars

\* C21 witness: "use whisper" was refused while the backend was unconfirmed
C21_Witness ==
    /\ last.op = "processCommand"
    /\ Accepted(last)
    /\ last.parsed = UseWhisper
    /\ ~whisperAvailable
    /\ ~useWhisperBackend
    /\ storedBackend = Absent
    /\ Emitted(emitted, "error", <<"W","h","i","s","p","e","r"," ","b","a","c","k","e","n","d"," ","n","o","t"," ","a","v","a","i","l","a","b","l","e">>)

\* C22: executeScene with a name that is not a defined scene emits feedback
\* only (spoken, so none while voice responses are off): no callback is
\* scheduled, and the store, its snapshot, the timer registry and the history
\* are unchanged.
C22_UnknownSceneIsHarmless ==
    [][(last'.op = "executeScene" /\ last'.scene \notin DOMAIN scenes)
        => /\ UNCHANGED <<devices, persisted, tasks, activeTimers, commandHistory,
                          voiceResponseEnabled>>
           /\ \A i \in 1..Len(emitted') : emitted'[i].sink \in {"debug", "speak"}
           /\ (voiceResponseEnabled /\ last'.scene \notin InheritedScenes)
                => emitted' = speak(<<"S","o","r","r","y",","," ","I"," ","d","o","n","'","t"," ","k","n","o","w"," ","t","h","e"," ">> \o Chars(last'.scene)
                                        \o <<" ","s","c","e","n","e",".">>, TRUE)
           /\ ~voiceResponseEnabled => \A i \in 1..Len(emitted') : emitted'[i].sink # "speak"]_vars

\* C22 witness: an unknown scene was asked for while steps of a defined scene
\* were pending, after the store had changed
C22_Witness ==
    /\ last.op = "executeScene"
    /\ last.scene = "romantic"
    /\ tasks # << >>
    /\ persisted # Snapshot(devices)
    /\ Emitted(emitted, "spoken", <<"S","o","r","r","y",","," ","I"," ","d","o","n","'","t"," ","k","n","o","w"," ","t","h","e"," ","r","o","m","a","n","t","i","c"," ","s","c","e","n","e",".">>)

\* the history is ordered newest first
NewestFirst(history) ==
    \A i, j \in 1..Len(history) : i < j => history[i].timestamp >= history[j].timestamp

\* C23: the command history never holds more than 10 entries and is ordered
\* newest first; a processed utterance that is recorded becomes the first
\* entry, the entries before it move down one place in their order, and when
\* the history was full exactly the oldest one is dropped; nothing else
\* changes the history.
C23_HistoryKeepsTenNewest ==
    /\ [](Len(commandHistory) <= 10 /\ NewestFirst(commandHistory))
    /\ [][IF last'.op = "processCommand" /\ Accepted(last')
          THEN /\ Len(commandHistory') = IF Len(commandHistory) = 10 THEN 10
                                         ELSE Len(commandHistory) + 1
               /\ commandHistory'[1].command = last'.command
               /\ commandHistory'[1].timestamp = now
               /\ \A i \in 2..Len(commandHistory') :
                     commandHistory'[i] = commandHistory[i - 1]
          ELSE UNCHANGED commandHistory]_vars

\* C23 witness: two utterances were recorded into a full history, and the two
\* oldest stored entries are gone
C23_Witness ==
    /\ Len(commandHistory) = 10
    /\ commandHistory[1].command = <<"m","u","s","i","c"," ","o","n">>
    /\ commandHistory[2].command = <<"o","p","e","n"," ","t","h","e"," ","p","o","d"," ","b","a","y"," ","d","o","o","r","s">>
    /\ commandHistory[1].timestamp > commandHistory[2].timestamp
    /\ commandHistory[10] = StoredEntry(8)

\* the room and device a pending callback writes
Target(task) ==
    IF task.kind = "sceneStep"
    THEN LET step == scenes[task.command.scene][task.command.index + 1]
         IN  <<step.room, step.device>>
    ELSE <<task.command.room, task.command.device>>

\* the value a pending callback is to write
Payload(task) ==
    CASE task.kind = "sceneStep" -> scenes[task.command.scene][task.command.index + 1].value
      [] task.kind = "timer" -> 0
      [] OTHER -> task.command.value

Writers == {"device", "sceneStep", "timer"}

\* a command accepted after `task` was scheduled targets the same room and
\* device: its callback is pending or was the last to write the device
Overlapped(task) ==
    \/ lastWrite[Target(task)[1]][Target(task)[2]].by > task.by
    \/ \E j \in 1..Len(tasks) :
          /\ tasks[j].kind \in Writers
          /\ tasks[j].by > task.by
          /\ Target(tasks[j]) = Target(task)

\* C24 (as claimed): a new command does not preempt pending work on the device
\* it targets: no input removes or delays a pending callback; a scene step or
\* timer that was pending when a command for the same room and device was
\* accepted still fires at its scheduled time and writes its value; and the
\* store changes only when a callback writes (or the devices are reset), so
\* the value left is that of the last callback to fire.
C24_PendingWorkNotPreempted ==
    [][/\ handled' # handled
            => \A k \in 1..Len(tasks) : k <= Len(tasks') /\ tasks'[k] = tasks[k]
       /\ (/\ last'.op = "fire"
           /\ last'.task.kind \in {"sceneStep", "timer"}
           /\ Overlapped(last'.task))
            => /\ now = last'.task.due
               /\ last'.ran
               /\ devices'[Target(last'.task)[1]][Target(last'.task)[2]] = Payload(last'.task)
       /\ last'.op \notin {"fire", "resetDevices"} => UNCHANGED devices]_vars

\* the callback of kind `kind` that input `by` scheduled has just run
Ran(kind, by) == last.op = "fire" /\ last.task.kind = kind /\ last.task.by = by

\* the callbacks that input `by` scheduled and that have not run yet
Deferred(by) == {j \in 1..Len(tasks) : tasks[j].by = by}

\* C25: every deferred action an accepted command schedules eventually runs,
\* whatever commands arrive meanwhile: a pending callback leaves the pending
\* ones only by running, all callbacks of every input eventually have run,
\* and the response of a device command, when it runs, sets the device to the
\* command's value, persists the store and emits its confirmation.
C25_DeferredActionsRun ==
    /\ [][/\ last'.op # "fire"
               => \A k \in 1..Len(tasks) : k <= Len(tasks') /\ tasks'[k] = tasks[k]
          /\ last'.op = "fire"
               => /\ Len(tasks') = Len(tasks) - 1
                  /\ \E k \in 1..Len(tasks) : tasks[k] = last'.task /\ tasks[k].due <= now
          /\ (last'.op = "fire" /\ last'.task.kind = "device")
               => /\ devices'[last'.task.command.room][last'.task.command.device]
                        = last'.task.command.value
                  /\ persisted' = Snapshot(devices')
                  /\ Emitted(emitted', "success", formatSuccessMessage(last'.task.command))]_vars
    /\ \A by \in 1..MaxCommands : (Deferred(by) # {}) ~> (Deferred(by) = {})

\* C25 witness: the response of a device command ran and wrote while the
\* steps of a scene accepted after it were pending
C25_Witness ==
    /\ Ran("device", 1)
    /\ devices["living-room"].lights = 100
    /\ persisted = Snapshot(devices)
    /\ Pending("sceneStep", 2) # {}

\* C26: for every utterance "dim [the] [<room>] lights to N [percent]", <room>
\* an alias of the normalizer's table, the parser yields the lights intent of
\* the named room (living-room when none is named) with action dim and value
\* min(100, max(0, N)); "dim bedroom lights to 50 percent" yields lights,
\* bedroom, 50.
C26_DimClamped ==
    /\ \A article \in DimArticles, n \in DimLevels, suffix \in DimSuffixes :
          /\ \A k \in 1..Len(roomMap) :
                (last.op = "parseCommand"
                    /\ last.command = DimUtterance(article, roomMap[k][1], n, suffix))
                  => last.result = [type |-> Undefined, device |-> "lights",
                                    room |-> roomMap[k][2], action |-> "dim",
                                    value |-> IF n > 100 THEN 100 ELSE n]
          /\ (last.op = "parseCommand" /\ last.command = DimUtterance(article, <<>>, n, suffix))
                  => last.result = [type |-> Undefined, device |-> "lights",
                                    room |-> "living-room", action |-> "dim",
                                    value |-> IF n > 100 THEN 100 ELSE n]
    /\ (last.op = "parseCommand" /\ last.command = <<"d","i","m"," ","b","e","d","r","o","o","m"," ","l","i","g","h","t","s"," ","t","o"," ","5","0"," ","p","e","r","c","e","n","t">>)
          => /\ last.result.device = "lights"
             /\ last.result.room = "bedroom"
             /\ last.result.value = 50

\* C26 witness: "dim the master bedroom lights to 150%" was parsed to bedroom, 100
C26_Witness ==
    /\ last.op = "parseCommand"
    /\ last.command = <<"d","i","m"," ","t","h","e"," ","m","a","s","t","e","r"," ","b","e","d","r","o","o","m"," ","l","i","g","h","t","s"," ","t","o"," ","1","5","0","%">>
    /\ last.result.room = "bedroom"
    /\ last.result.value = 100

\* the parser's result is a lights intent for `room`
LightsFor(result, room) ==
    /\ "room" \in DOMAIN result
    /\ result.device = "lights"
    /\ result.room = room

\* C27 (as claimed): a lights on/off utterance that names no room gets the
\* default room living-room, and one that names a room by an alias of the
\* normalizer's table, in any of the phrasings of the lights rules, gets that
\* alias's canonical id.
C27_NamedRoomIsKept ==
    last.op = "parseCommand"
        => /\ last.command \in LightsNaming(<<>>) => LightsFor(last.result, "living-room")
           /\ \A k \in 1..Len(roomMap) :
                 last.command \in LightsNaming(roomMap[k][1])
                    => LightsFor(last.result, roomMap[k][2])

\* C28: an utterance holding "movie mode" or "cinema mode" parses to the scene
\* movie, "goodnight" or "good night" to goodnight, "wake up" or "morning
\* mode" to morning, "party mode" or "party time" to party, so the two
\* phrasings of a pair give equal intents; and every scene name the parser
\* yields is a defined scene.
C28_ScenePhrasingsAgree ==
    last.op = "parseCommand"
        => /\ \A k \in 1..Len(ScenePhrasings) :
                 includes(last.command, ScenePhrasings[k][1])
                    => last.result = [type |-> "scene", action |-> ScenePhrasings[k][2]]
           /\ last.result.type = "scene" => last.result.action \in DOMAIN scenes

\* C28 witness: "activate good night please" was parsed to the goodnight scene
C28_Witness ==
    /\ last.op = "parseCommand"
    /\ last.command = <<"a","c","t","i","v","a","t","e"," ","g","o","o","d"," ","n","i","g","h","t"," ","p","l","e","a","s","e">>
    /\ last.result = [type |-> "scene", action |-> "goodnight"]
    /\ Len(scenes[last.result.action]) = 4

PendingTimers == {j \in 1..Len(tasks) : tasks[j].kind = "timer"}

\* C30 (as claimed): a timer is in the active-timer registry exactly from its
\* scheduling until its own fire callback runs: every timer whose callback is
\* pending has an entry of its own, with its end time, and the registry holds
\* nothing else, so it is empty once all timer callbacks have run.
C30_RegistryIsPendingTimers ==
    /\ DOMAIN activeTimers = {tasks[j].command.timerId : j \in PendingTimers}
    /\ Cardinality(DOMAIN activeTimers) = Cardinality(PendingTimers)
    /\ \A j \in PendingTimers :
          /\ tasks[j].command.timerId \in DOMAIN activeTimers
          /\ activeTimers[tasks[j].command.timerId].endTime = tasks[j].due

\* the first table entry from position k on that satisfies `hit`, else none (0)
RECURSIVE FirstEntry(_, _, _)
FirstEntry(key, k, exactly) ==
    IF k > Len(roomMap) THEN 0
    ELSE IF \/ exactly /\ roomMap[k][1] = key
            \/ ~exactly /\ (startsWith(key, roomMap[k][1]) \/ startsWith(roomMap[k][1], key))
         THEN k
         ELSE FirstEntry(key, k + 1, exactly)

\* the reference operator of the normalizer
ReferenceRoom(name) ==
    LET key == toLowerCase(trim(name))
    IN  IF FirstEntry(key, 1, TRUE) # 0 THEN roomMap[FirstEntry(key, 1, TRUE)][2]
        ELSE IF FirstEntry(key, 1, FALSE) # 0 THEN roomMap[FirstEntry(key, 1, FALSE)][2]
        ELSE "living-room"

\* C31 (as claimed): normalizeRoom agrees with the reference operator: after
\* trimming and lower-casing an exact alias wins, else the first table entry
\* whose key is a prefix of the input or has the input as a prefix, else the
\* default room living-room.
C31_AgreesWithReference ==
    last.op = "normalizeRoom" => last.result = ReferenceRoom(last.name)

\* C32 (as claimed): for every timer utterance "turn off [the] <room alias>
\* lights in N <unit>", with or without the article, the timer that is
\* scheduled and registered has the alias's canonical id as its room.
C32_TimerRoomIsNamedRoom ==
    last.op = "processCommand"
        => \A k \in 1..Len(roomMap) :
              last.command \in TimerNaming(roomMap[k][1])
                 => /\ tasks # << >>
                    /\ tasks[Len(tasks)].kind = "timer"
                    /\ tasks[Len(tasks)].command.room = roomMap[k][2]
                    /\ \A id \in DOMAIN activeTimers : activeTimers[id].room = roomMap[k][2]

\* the step handled an accepted voice setting
VoiceSetting(l) ==
    /\ l.op = "processCommand"
    /\ Accepted(l)
    /\ l.parsed # Null
    /\ l.parsed.type = "settings"
    /\ l.parsed.action \in {"disable_voice", "enable_voice"}

Spoken(entries) == {i \in 1..Len(entries) : entries[i].sink = "speak"}

\* C33: a step that ends with voice responses disabled speaks nothing, callbacks
\* scheduled while they were enabled included; the flag changes only by an
\* accepted voice setting, which sets it as the setting says and changes
\* nothing else but the history.
C33_SilentWhileDisabled ==
    [][/\ ~voiceResponseEnabled' => Spoken(emitted') = {}
       /\ voiceResponseEnabled' # voiceResponseEnabled => VoiceSetting(last')
       /\ VoiceSetting(last')
            => /\ voiceResponseEnabled' = (last'.parsed.action = "enable_voice")
               /\ Spoken(emitted') # {} <=> last'.parsed.action = "enable_voice"
               /\ UNCHANGED <<devices, persisted, activeTimers, tasks, now,
                              useWhisperBackend, storedBackend, whisperAvailable,
                              lastWrite>>]_vars

\* the callback of the first command runs after the second command has disabled
\* the voice responses
C33_Witness ==
    /\ ~voiceResponseEnabled
    /\ last.op = "fire"
    /\ last.task.by = 1
    /\ last.task.kind = "timer"
    /\ emitted # << >>

\* C34: an utterance that passes the confidence check adds exactly one history
\* entry, for this utterance, with success = true exactly when the parser
\* returned an intent, whether or not the command then fails on its room or
\* device; a rejected utterance adds none.
C34_OneEntryPerAcceptedUtterance ==
    [][last'.op = "processCommand"
          => IF Accepted(last')
             THEN /\ commandHistory' # << >>
                  /\ commandHistory'[1].command = last'.command
                  /\ commandHistory'[1].parsed = last'.parsed
                  /\ commandHistory'[1].success = (last'.parsed.type # "null")
                  /\ Len(commandHistory') = Min({Len(commandHistory) + 1, maxHistoryLength})
                  /\ \A i \in 2..Len(commandHistory') :
                        commandHistory'[i] = commandHistory[i - 1]
             ELSE UNCHANGED commandHistory]_vars

\* the two commands handled were device commands for one device of one room,
\* and no callback is pending any more
BothAnswered ==
    /\ handled = 2
    /\ Len(commandHistory) = 2
    /\ tasks = << >>
    /\ \A i \in 1..2 : commandHistory[i].parsed.type = Undefined
    /\ commandHistory[1].parsed.room = commandHistory[2].parsed.room
    /\ commandHistory[1].parsed.device = commandHistory[2].parsed.device

\* C35: when two device commands for the same room and device were accepted
\* one after the other and both response delays have elapsed, the device holds
\* the value of the command that was issued later.
C35_LaterCommandWins ==
    BothAnswered
        => devices[commandHistory[1].parsed.room][commandHistory[1].parsed.device]
              = commandHistory[1].parsed.value

\* the step handled a help or a settings intent
HelpOrSettings(l) ==
    /\ l.op = "processCommand"
    /\ Accepted(l)
    /\ l.parsed.type \in {"help", "settings"}

\* C36: handling a help or a settings intent leaves the device store, its
\* persisted snapshot and the timer registry as they are and schedules no
\* callback that writes a device: settings schedule nothing, help schedules
\* its text for the debug panel, and that callback writes no device either.
C36_HelpAndSettingsLeaveDevices ==
    [][/\ HelpOrSettings(last')
            => /\ UNCHANGED <<devices, persisted, activeTimers, lastWrite>>
               /\ Len(tasks') >= Len(tasks)
               /\ SubSeq(tasks', 1, Len(tasks)) = tasks
               /\ \A k \in (Len(tasks) + 1)..Len(tasks') : tasks'[k].kind \notin Writers
               /\ last'.parsed.type = "settings" => tasks' = tasks
       /\ (last'.op = "fire" /\ last'.task.kind = "help")
            => UNCHANGED <<devices, persisted, activeTimers, lastWrite>>]_vars

\* the backend was switched to Whisper while a callback that writes a device
\* was pending
C36_Witness ==
    /\ HelpOrSettings(last)
    /\ last.parsed.action = "use_whisper"
    /\ useWhisperBackend
    /\ \E k \in 1..Len(tasks) : tasks[k].kind \in Writers

\* C37: when the microphone is toggled while listening, the recogniser that
\* is running is stopped, whatever the backend flags and the recorder are:
\* isListening becomes false.
C37_StopListeningStops == (last.op = "stopListening") ~> ~isListening
====
